---- MODULE Spec2Model ----
(***************************************************************************)
(* Alert cleaning, validation and identity of slack-manager-common         *)
(* (src/alert.go, src/alert_severity.go).                                  *)
(*                                                                         *)
(* A Go string is modelled as the sequence of its codepoints: every rune   *)
(* is a one-element TLA+ string, except the multi-byte runes, which are    *)
(* written "U+XXXX" and carry their UTF-8 width (UTF8Len / UTF8).          *)
(* utf8.RuneCountInString is the length of the sequence, len() the sum of  *)
(* the widths.  A pointer is a record with a field nil; NIL is the nil     *)
(* pointer.  A nil slice and an empty slice are both <<>>: the code only   *)
(* takes len(), ranges over them, or returns nil on "== nil", which is     *)
(* also what the empty loop returns.                                       *)
(***************************************************************************)
EXTENDS Integers, Sequences, FiniteSets, TLC

VARIABLES
    alert,    \* the Alert the operations act on (the receiver *Alert)
    other,    \* a second Alert, compared with alert by the identity claims
    now,      \* the wall clock read by time.Since / time.Now, in seconds
    ticks,    \* number of clock advances so far
    cleans,   \* number of Clean calls made on alert so far
    staleCalls,  \* number of those calls that found the timestamp stale
    before,   \* the value of alert at the entry of the last operation on it
    result,   \* what the last operation on alert returned, and when it was called
    otherResult,  \* what the last operation on other returned
    digests,  \* the SHA-256 digests computed so far, by the bytes absorbed
    callback, \* the WebhookCallback the getters act on (the receiver *WebhookCallback)
    args,     \* the arguments of the next call of a function or getter
    returned  \* the last call of a function or getter and the value it returned

vars == <<alert, other, now, ticks, cleans, staleCalls, before, result, otherResult, digests,
          callback, args, returned>>

(***************************************************************************)
(* Program constants (src/alert.go:28-129)                                 *)
(***************************************************************************)
MaxTimestampAge == 7 * 24 * 3600
MaxSlackChannelIDLength == 80
MaxRouteKeyLength == 1000
MaxHeaderLength == 130
MaxFallbackTextLength == 150
MaxTextLength == 10000
MaxAuthorLength == 100
MaxHostLength == 100
MaxFooterLength == 300
MaxUsernameLength == 100
MaxFieldTitleLength == 30
MaxFieldValueLength == 200
MaxIconEmojiLength == 50
MaxMentionLength == 20
MaxCorrelationIDLength == 500
MinAutoResolveSeconds == 30
MaxAutoResolveSeconds == 63113851
MaxIgnoreIfTextContainsLength == 1000
MaxIgnoreIfTextContainsCount == 20
MaxFieldCount == 20
MaxWebhookCount == 5
MaxWebhookIDLength == 100
MaxWebhookURLLength == 1000
MaxWebhookButtonTextLength == 25
MaxWebhookConfirmationTextLength == 1000
MaxWebhookPayloadCount == 50
MaxWebhookPlainTextInputCount == 10
MaxWebhookCheckboxInputCount == 10
MaxWebhookInputIDLength == 200
MaxWebhookInputDescriptionLength == 200
MaxWebhookInputLabelLength == 200
MaxWebhookInputTextLength == 3000
MaxWebhookCheckboxOptionCount == 5
MaxWebhookCheckboxOptionTextLength == 50
MaxCheckboxOptionValueLength == 100
MaxEscalationCount == 3
MinEscalationDelaySeconds == 30
MinEscalationDelayDiffSeconds == 30
MaxEscalationSlackMentionCount == 10

(***************************************************************************)
(* Bounds of the model                                                     *)
(***************************************************************************)
MaxCleans == 2     \* Clean calls per alert
MaxTicks == 1      \* clock advances per behaviour
MaxEscLen == 3     \* escalation entries drawn for an input alert
MaxHooks == 2      \* webhooks drawn for an input alert
MaxFieldsLen == 3  \* fields drawn for an input alert

(***************************************************************************)
(* Strings                                                                 *)
(***************************************************************************)
NIL == [nil |-> TRUE]

Rep(c, n) == [i \in 1..n |-> c]

Min(S) == CHOOSE x \in S : \A y \in S : x <= y

\* Runes of more than one byte, and their UTF-8 encodings.
UTF8(r) ==
    CASE r = "U+00E9" -> <<"xC3", "xA9">>
      [] r = "U+00C9" -> <<"xC3", "x89">>
      [] r = "U+65E5" -> <<"xE6", "x97", "xA5">>
      [] r = "U+1F600" -> <<"xF0", "x9F", "x98", "x80">>
      [] OTHER -> <<r>>

UTF8Len(r) == Len(UTF8(r))

\* utf8.RuneCountInString
RuneCountInString(s) == Len(s)

\* len(s): the number of bytes
ByteLen(s) ==
    Len(s) + Cardinality({i \in 1..Len(s) : UTF8Len(s[i]) = 2})
           + 2 * Cardinality({i \in 1..Len(s) : UTF8Len(s[i]) = 3})
           + 3 * Cardinality({i \in 1..Len(s) : UTF8Len(s[i]) = 4})

\* []byte(s)
RECURSIVE Bytes(_)
Bytes(s) ==
    IF Len(s) = 0 THEN <<>>
    ELSE IF Len(s) = 1 THEN UTF8(s[1])
    ELSE LET h == Len(s) \div 2
         IN  Bytes(SubSeq(s, 1, h)) \o Bytes(SubSeq(s, h + 1, Len(s)))

\* unicode.IsSpace, on the runes the inputs use
IsSpace(r) == r \in {" ", "\n", "\t", "\r"}

LowerRunes == <<"a","b","c","d","e","f","g","h","i","j","k","l","m","n","o","p","q","r","s","t","u","v","w","x","y","z","U+00E9">>
UpperRunes == <<"A","B","C","D","E","F","G","H","I","J","K","L","M","N","O","P","Q","R","S","T","U","V","W","X","Y","Z","U+00C9">>
Digits == <<"0","1","2","3","4","5","6","7","8","9">>

Range(f) == {f[i] : i \in DOMAIN f}

\* unicode.ToUpper / unicode.ToLower
ToUpperRune(r) ==
    IF r \in Range(LowerRunes)
    THEN UpperRunes[CHOOSE i \in DOMAIN LowerRunes : LowerRunes[i] = r]
    ELSE r

ToLowerRune(r) ==
    IF r \in Range(UpperRunes)
    THEN LowerRunes[CHOOSE i \in DOMAIN UpperRunes : UpperRunes[i] = r]
    ELSE r

\* strings.ToUpper / strings.ToLower
ToUpper(s) == [i \in 1..Len(s) |-> ToUpperRune(s[i])]
ToLower(s) == [i \in 1..Len(s) |-> ToLowerRune(s[i])]

\* strings.TrimSpace: the index of the first / last rune that is kept
RECURSIVE TrimLeftIndex(_, _)
TrimLeftIndex(s, i) ==
    IF i > Len(s) THEN i
    ELSE IF IsSpace(s[i]) THEN TrimLeftIndex(s, i + 1) ELSE i

RECURSIVE TrimRightIndex(_, _)
TrimRightIndex(s, j) ==
    IF j < 1 THEN j
    ELSE IF IsSpace(s[j]) THEN TrimRightIndex(s, j - 1) ELSE j

\* strings.TrimSpace taking one space at most from each end (mutant)
TrimSpaceOnce(s) ==
    LET i == IF Len(s) > 0 /\ IsSpace(s[1]) THEN 2 ELSE 1
        j == IF Len(s) > 1 /\ IsSpace(s[Len(s)]) THEN Len(s) - 1 ELSE Len(s)
    IN  IF i > Len(s) THEN <<>> ELSE SubSeq(s, i, j)

TrimSpace(s) ==
    LET i == TrimLeftIndex(s, 1)
    IN  IF i > Len(s) THEN <<>> ELSE SubSeq(s, i, TrimRightIndex(s, Len(s)))

\* strings.HasSuffix / strings.HasPrefix
HasSuffix(s, suffix) ==
    /\ Len(s) >= Len(suffix)
    /\ SubSeq(s, Len(s) - Len(suffix) + 1, Len(s)) = suffix

HasPrefix(s, prefix) ==
    /\ Len(s) >= Len(prefix)
    /\ SubSeq(s, 1, Len(prefix)) = prefix

\* strings.Index: the first position where sub occurs in s, 0 when none
Index(s, sub) ==
    LET M == {i \in 1..(Len(s) - Len(sub) + 1) : SubSeq(s, i, i + Len(sub) - 1) = sub}
    IN  IF M = {} THEN 0 ELSE Min(M)

Contains(s, sub) == Index(s, sub) # 0

\* strings.ReplaceAll: the non-overlapping occurrences, from the left, in one pass
RECURSIVE ReplaceAll(_, _, _)
ReplaceAll(s, old, new) ==
    LET i == Index(s, old)
    IN  IF i = 0 THEN s
        ELSE SubSeq(s, 1, i - 1) \o new
             \o ReplaceAll(SubSeq(s, i + Len(old), Len(s)), old, new)

\* strings.ReplaceAll(s, "\n", " "): a one-rune replacement, rune by rune
ReplaceNewlines(s) == [i \in 1..Len(s) |-> IF s[i] = "\n" THEN " " ELSE s[i]]

StatusToken == <<":", "s", "t", "a", "t", "u", "s", ":">>
Ellipsis == <<".", ".", ".">>
\* the code-fence token: three backticks (U+0060)
Fence == <<"U+0060", "U+0060", "U+0060">>

\* truncateString with an off-by-one cut (mutant)
truncateStringOneMore(s, maxRunes) ==
    IF RuneCountInString(s) <= maxRunes THEN s ELSE SubSeq(s, 1, maxRunes + 1)

\* truncateString
truncateString(s, maxRunes) ==
    IF RuneCountInString(s) <= maxRunes THEN s ELSE SubSeq(s, 1, maxRunes)

\* shortenAlertTextIfNeeded without the code-fence case (mutant)
shortenAlertTextNoFence(text) ==
    IF RuneCountInString(text) <= MaxTextLength THEN text
    ELSE TrimSpace(truncateString(text, MaxTextLength - 3)) \o Ellipsis

\* shortenAlertTextIfNeeded
shortenAlertTextIfNeeded(text) ==
    IF RuneCountInString(text) <= MaxTextLength THEN text
    ELSE IF HasSuffix(text, Fence)
         THEN TrimSpace(truncateString(text, MaxTextLength - 6)) \o Ellipsis \o Fence
         ELSE TrimSpace(truncateString(text, MaxTextLength - 3)) \o Ellipsis

\* the truncation block without room left for the ellipsis (mutant)
TruncateTrimmedNoRoom(s, max) ==
    IF RuneCountInString(s) > max
    THEN TrimSpace(truncateString(s, max)) \o Ellipsis
    ELSE s

\* the "if RuneCount > max { x = TrimSpace(truncateString(x, max-3)) + "..." }" blocks of Clean
TruncateTrimmed(s, max) ==
    IF RuneCountInString(s) > max
    THEN TrimSpace(truncateString(s, max - 3)) \o Ellipsis
    ELSE s

(***************************************************************************)
(* Clean                                                                   *)
(***************************************************************************)
\* time.Now(): the current instant, in the local zone
TimeNow(clock) == [sec |-> clock, loc |-> "Local"]

\* time.Since(t), one second too long (mutant)
TimeSinceRoundedUp(t, clock) == clock - t.sec + 1

\* time.Since(t)
TimeSince(t, clock) == clock - t.sec

\* the comparison with the delays compared the wrong way round (mutant)
EscalationLessDescending(es, i, j) ==
    IF es[i].nil THEN TRUE
    ELSE IF es[j].nil THEN FALSE
    ELSE es[i].DelaySeconds > es[j].DelaySeconds

\* the comparison with a nil entry after every other entry (mutant)
EscalationLessNilLast(es, i, j) ==
    IF es[i].nil THEN FALSE
    ELSE IF es[j].nil THEN TRUE
    ELSE es[i].DelaySeconds < es[j].DelaySeconds

\* the comparison function handed to sort.Slice
EscalationLess(es, i, j) ==
    IF es[i].nil THEN TRUE
    ELSE IF es[j].nil THEN FALSE
    ELSE es[i].DelaySeconds < es[j].DelaySeconds

Swap(es, i, j) == [es EXCEPT ![i] = es[j], ![j] = es[i]]

\* sort.Slice on a slice of at most 12 elements is an insertion sort:
\*   for i := 1; i < n; i++ { for j := i; j > 0 && less(j, j-1); j-- { swap(j, j-1) } }
RECURSIVE SortInner(_, _)
SortInner(es, j) ==
    IF j > 1 /\ EscalationLess(es, j, j - 1)
    THEN SortInner(Swap(es, j, j - 1), j - 1)
    ELSE es

RECURSIVE SortOuter(_, _)
SortOuter(es, i) ==
    IF i > Len(es) THEN es ELSE SortOuter(SortInner(es, i), i + 1)

SortEscalation(es) == SortOuter(es, 2)

\* the loop body over a.Fields
CleanField(field) ==
    IF field.nil THEN field
    ELSE
    LET title == TrimSpace(field.Title)
        value == TrimSpace(field.Value)
    IN  [field EXCEPT !.Title = TruncateTrimmed(title, MaxFieldTitleLength),
                      !.Value = TruncateTrimmed(value, MaxFieldValueLength)]

\* the loop body over hook.PlainTextInput
CleanPlainTextInput(input) ==
    IF input.nil THEN input
    ELSE
    [input EXCEPT !.ID = TrimSpace(input.ID),
                  !.Description = TrimSpace(input.Description),
                  !.InitialValue = TrimSpace(input.InitialValue)]

\* the loop body over hook.CheckboxInput
CleanCheckboxInput(input) ==
    IF input.nil THEN input
    ELSE
    [input EXCEPT !.ID = TrimSpace(input.ID),
                  !.Label = TrimSpace(input.Label)]

\* the loop body over a.Webhooks without the two loops over the inputs (mutant)
CleanWebhookNoInputs(hook) ==
    IF hook.nil THEN hook
    ELSE
    [hook EXCEPT !.ID = TrimSpace(hook.ID),
                 !.ButtonText = TrimSpace(hook.ButtonText),
                 !.URL = TrimSpace(hook.URL),
                 !.ConfirmationText = TrimSpace(hook.ConfirmationText),
                 !.ButtonStyle = IF hook.ButtonStyle = <<"d","e","f","a","u","l","t">>
                                 THEN <<>> ELSE hook.ButtonStyle]

\* the loop body over a.Webhooks
CleanWebhook(hook) ==
    IF hook.nil THEN hook
    ELSE
    [hook EXCEPT !.ID = TrimSpace(hook.ID),
                 !.ButtonText = TrimSpace(hook.ButtonText),
                 !.URL = TrimSpace(hook.URL),
                 !.ConfirmationText = TrimSpace(hook.ConfirmationText),
                 !.ButtonStyle = IF hook.ButtonStyle = <<"d","e","f","a","u","l","t">>
                                 THEN <<>> ELSE hook.ButtonStyle,
                 !.PlainTextInput = [i \in 1..Len(hook.PlainTextInput) |-> CleanPlainTextInput(hook.PlainTextInput[i])],
                 !.CheckboxInput = [i \in 1..Len(hook.CheckboxInput) |-> CleanCheckboxInput(hook.CheckboxInput[i])]]

\* the loop body over a.Escalation, after the sort
CleanEscalation(e) ==
    IF e.nil THEN e
    ELSE
    [e EXCEPT !.Severity = ToLower(TrimSpace(e.Severity)),
              !.MoveToChannel = ToUpper(TrimSpace(e.MoveToChannel)),
              !.SlackMentions = [i \in 1..Len(e.SlackMentions) |-> TrimSpace(e.SlackMentions[i])]]

\* the fallback text of Clean: strip the status token, trim, collapse newlines, truncate
CleanFallbackText(s) ==
    LET stripped == ReplaceNewlines(TrimSpace(ReplaceAll(s, StatusToken, <<>>)))
    IN  IF RuneCountInString(stripped) > MaxFallbackTextLength
        THEN truncateString(stripped, MaxFallbackTextLength - 3) \o Ellipsis
        ELSE stripped

\* the severity of Clean without the default (mutant)
CleanSeverityNoDefault(s) == ToLower(TrimSpace(s))

\* the severity of Clean: trim, lower-case, default
CleanSeverity(s) ==
    LET sev == ToLower(TrimSpace(s))
    IN  IF sev = <<>> \/ sev = <<"c","r","i","t","i","c","a","l">>
        THEN <<"e","r","r","o","r">> ELSE sev

\* Alert.Clean
Clean(a, clock) ==
    [a EXCEPT
        !.Timestamp = IF TimeSince(a.Timestamp, clock) > MaxTimestampAge
                      THEN TimeNow(clock) ELSE a.Timestamp,
        !.Type = ToLower(TrimSpace(a.Type)),
        !.SlackChannelID = ToUpper(TrimSpace(a.SlackChannelID)),
        !.RouteKey = ToLower(TrimSpace(a.RouteKey)),
        !.Header = TruncateTrimmed(ReplaceNewlines(TrimSpace(a.Header)), MaxHeaderLength),
        !.HeaderWhenResolved =
            TruncateTrimmed(ReplaceNewlines(TrimSpace(a.HeaderWhenResolved)), MaxHeaderLength),
        !.Text = shortenAlertTextIfNeeded(TrimSpace(a.Text)),
        !.TextWhenResolved = shortenAlertTextIfNeeded(TrimSpace(a.TextWhenResolved)),
        !.FallbackText = CleanFallbackText(a.FallbackText),
        !.CorrelationID = TrimSpace(a.CorrelationID),
        !.Username = TruncateTrimmed(TrimSpace(a.Username), MaxUsernameLength),
        !.Author = TruncateTrimmed(TrimSpace(a.Author), MaxAuthorLength),
        !.Host = TruncateTrimmed(TrimSpace(a.Host), MaxHostLength),
        !.Link = TrimSpace(a.Link),
        !.Footer = TruncateTrimmed(TrimSpace(a.Footer), MaxFooterLength),
        !.IconEmoji = ToLower(TrimSpace(a.IconEmoji)),
        !.Severity = CleanSeverity(a.Severity),
        !.ArchivingDelaySeconds =
            IF a.ArchivingDelaySeconds < 0 THEN 0 ELSE a.ArchivingDelaySeconds,
        !.NotificationDelaySeconds =
            IF a.NotificationDelaySeconds < 0 THEN 0 ELSE a.NotificationDelaySeconds,
        !.Fields = [i \in 1..Len(a.Fields) |-> CleanField(a.Fields[i])],
        !.Webhooks = [i \in 1..Len(a.Webhooks) |-> CleanWebhook(a.Webhooks[i])],
        !.Escalation = IF Len(a.Escalation) > 0
                       THEN LET sorted == SortEscalation(a.Escalation)
                            IN  [i \in 1..Len(sorted) |-> CleanEscalation(sorted[i])]
                       ELSE a.Escalation]

(***************************************************************************)
(* Patterns and parsers used by the validation                             *)
(***************************************************************************)
AsciiLetters == Range(SubSeq(LowerRunes, 1, 26)) \cup Range(SubSeq(UpperRunes, 1, 26))

\* SlackChannelIDOrNameRegex: ^[0-9a-zA-Z\-_]{1,80}$
MatchSlackChannelIDOrName(s) ==
    /\ Len(s) >= 1
    /\ Len(s) <= MaxSlackChannelIDLength
    /\ \A i \in 1..Len(s) : s[i] \in AsciiLetters \cup Range(Digits) \cup {"-", "_"}

\* IconRegex: ^:[^:]{1,50}:$
MatchIcon(s) ==
    /\ Len(s) >= 3
    /\ Len(s) <= MaxIconEmojiLength + 2
    /\ s[1] = ":"
    /\ s[Len(s)] = ":"
    /\ \A i \in 2..(Len(s) - 1) : s[i] # ":"

\* SlackMentionRegex: ^((<!here>)|(<!channel>)|(<@[^>\s]{1,20}>))$
MatchSlackMention(s) ==
    \/ s = <<"<","!","h","e","r","e",">">>
    \/ s = <<"<","!","c","h","a","n","n","e","l",">">>
    \/ /\ Len(s) >= 4
       /\ Len(s) <= MaxMentionLength + 3
       /\ s[1] = "<"
       /\ s[2] = "@"
       /\ s[Len(s)] = ">"
       /\ \A i \in 3..(Len(s) - 1) : s[i] # ">" /\ s[i] \notin {" ", "\n", "\t", "\r", "\f"}

\* isValidASCII: every byte in 0x20..0x7E
isValidASCII(s) ==
    \A i \in 1..Len(s) : UTF8Len(s[i]) = 1 /\ s[i] \notin {"\n", "\t", "\r", "\f", "x00"}

\* url.ParseRequestURI, as far as the validation reads its result: whether it
\* fails, the scheme and the host.  Control bytes and the empty string fail; a
\* scheme is a letter followed by letters, digits, "+", "-", "." up to the first
\* ":" (a leading ":" fails); without a scheme the rest must start with "/";
\* after "scheme://" the host runs up to the next "/" and holds no space.
SchemeEnd(s) ==
    LET stops == {i \in 1..Len(s) :
                    \/ s[i] \notin AsciiLetters \cup Range(Digits) \cup {"+", "-", "."}
                    \/ (i = 1 /\ s[i] \notin AsciiLetters)}
    IN  IF stops = {} THEN 0 ELSE Min(stops)

ParseRequestURI(s) ==
    LET bad == [err |-> TRUE, Scheme |-> <<>>, Host |-> <<>>]
        k == SchemeEnd(s)
        hasScheme == k > 1 /\ s[k] = ":"
        scheme == IF hasScheme THEN ToLower(SubSeq(s, 1, k - 1)) ELSE <<>>
        rest == IF hasScheme THEN SubSeq(s, k + 1, Len(s)) ELSE s
        afterSlashes == SubSeq(rest, 3, Len(rest))
        slash == Index(afterSlashes, <<"/">>)
        host == IF slash = 0 THEN afterSlashes ELSE SubSeq(afterSlashes, 1, slash - 1)
    IN  IF s = <<>> \/ \E i \in 1..Len(s) : s[i] \in {"\n", "\t", "\r", "\f", "x00"}
        THEN bad
        ELSE IF s = <<"*">> THEN [err |-> FALSE, Scheme |-> <<>>, Host |-> <<>>]
        ELSE IF k = 1 /\ s[1] = ":" THEN bad
        ELSE IF ~HasPrefix(rest, <<"/">>)
             THEN IF hasScheme THEN [err |-> FALSE, Scheme |-> scheme, Host |-> <<>>]
                  ELSE bad
        ELSE IF hasScheme /\ HasPrefix(rest, <<"/", "/">>)
             THEN IF \E i \in 1..Len(host) : host[i] = " " THEN bad
                  ELSE [err |-> FALSE, Scheme |-> scheme, Host |-> host]
        ELSE [err |-> FALSE, Scheme |-> scheme, Host |-> <<>>]

(***************************************************************************)
(* Errors: the format string of the message and the indices it is given.   *)
(* The %s and %d values other than indices are not part of the model.      *)
(***************************************************************************)
NoError == [msg |-> "", idx |-> <<>>]
Err(msg, idx) == [msg |-> msg, idx |-> idx]

\* SeverityIsValid
SeverityIsValid(s) ==
    s \in {<<"p","a","n","i","c">>, <<"e","r","r","o","r">>, <<"w","a","r","n","i","n","g">>,
           <<"r","e","s","o","l","v","e","d">>, <<"i","n","f","o">>}

\* SeverityPriority with info taken for an unknown severity (mutant)
SeverityPriorityInfoUnknown(s) ==
    CASE s = <<"p", "a", "n", "i", "c">> -> 3
      [] s = <<"e", "r", "r", "o", "r">> -> 2
      [] s = <<"w", "a", "r", "n", "i", "n", "g">> -> 1
      [] s = <<"r", "e", "s", "o", "l", "v", "e", "d">> -> 0
      [] OTHER -> -1

\* SeverityPriority
SeverityPriority(s) ==
    CASE s = <<"p", "a", "n", "i", "c">> -> 3
      [] s = <<"e", "r", "r", "o", "r">> -> 2
      [] s = <<"w", "a", "r", "n", "i", "n", "g">> -> 1
      [] s \in {<<"r", "e", "s", "o", "l", "v", "e", "d">>, <<"i", "n", "f", "o">>} -> 0
      [] OTHER -> -1

\* ValidSeverities
ValidSeverities == <<<<"p", "a", "n", "i", "c">>, <<"e", "r", "r", "o", "r">>, <<"w", "a", "r", "n", "i", "n", "g">>, <<"r", "e", "s", "o", "l", "v", "e", "d">>, <<"i", "n", "f", "o">>>>

\* WebhookButtonStyleIsValid
WebhookButtonStyleIsValid(s) ==
    s \in {<<"p","r","i","m","a","r","y">>, <<"d","a","n","g","e","r">>}

\* ValidWebhookButtonStyles
ValidWebhookButtonStyles == <<<<"p", "r", "i", "m", "a", "r", "y">>, <<"d", "a", "n", "g", "e", "r">>>>

\* WebhookAccessLevelIsValid taking the empty string for a level (mutant)
WebhookAccessLevelIsValidOrEmpty(s) ==
    s \in {<<>>, <<"g", "l", "o", "b", "a", "l", "_", "a", "d", "m", "i", "n", "s">>, <<"c", "h", "a", "n", "n", "e", "l", "_", "a", "d", "m", "i", "n", "s">>, <<"c", "h", "a", "n", "n", "e", "l", "_", "m", "e", "m", "b", "e", "r", "s">>}

\* WebhookAccessLevelIsValid
WebhookAccessLevelIsValid(s) ==
    s \in {<<"g","l","o","b","a","l","_","a","d","m","i","n","s">>,
           <<"c","h","a","n","n","e","l","_","a","d","m","i","n","s">>,
           <<"c","h","a","n","n","e","l","_","m","e","m","b","e","r","s">>}

\* ValidWebhookAccessLevels
ValidWebhookAccessLevels == <<<<"g", "l", "o", "b", "a", "l", "_", "a", "d", "m", "i", "n", "s">>, <<"c", "h", "a", "n", "n", "e", "l", "_", "a", "d", "m", "i", "n", "s">>, <<"c", "h", "a", "n", "n", "e", "l", "_", "m", "e", "m", "b", "e", "r", "s">>>>

\* WebhookDisplayModeIsValid
WebhookDisplayModeIsValid(s) ==
    s \in {<<"a","l","w","a","y","s">>, <<"o","p","e","n","_","i","s","s","u","e">>,
           <<"r","e","s","o","l","v","e","d","_","i","s","s","u","e">>}

\* ValidWebhookDisplayModes
ValidWebhookDisplayModes == <<<<"a", "l", "w", "a", "y", "s">>, <<"o", "p", "e", "n", "_", "i", "s", "s", "u", "e">>, <<"r", "e", "s", "o", "l", "v", "e", "d", "_", "i", "s", "s", "u", "e">>>>

(***************************************************************************)
(* Validate and its checks.  Indices in errors are Go's (from 0).          *)
(***************************************************************************)
\* the destination check with the route key checked first (mutant)
ValidateSlackChannelIDAndRouteKeyRouteFirst(a) ==
    IF ByteLen(a.RouteKey) > MaxRouteKeyLength
    THEN Err("routeKey is too long, expected length <=%d", <<>>)
    ELSE IF a.SlackChannelID # <<>> /\ ~MatchSlackChannelIDOrName(a.SlackChannelID)
         THEN Err("slackChannelId '%s' is not valid", <<>>)
         ELSE NoError

\* Alert.ValidateSlackChannelIDAndRouteKey
ValidateSlackChannelIDAndRouteKey(a) ==
    IF a.SlackChannelID # <<>>
    THEN IF ~MatchSlackChannelIDOrName(a.SlackChannelID)
         THEN Err("slackChannelId '%s' is not valid", <<>>)
         ELSE NoError
    ELSE IF ByteLen(a.RouteKey) > MaxRouteKeyLength
         THEN Err("routeKey is too long, expected length <=%d", <<>>)
         ELSE NoError

\* Alert.ValidateHeaderAndText asking for both the header and the text (mutant)
ValidateHeaderAndTextBoth(a) ==
    IF a.Header = <<>> \/ a.Text = <<>>
    THEN Err("header and text cannot both be empty", <<>>)
    ELSE NoError

\* Alert.ValidateHeaderAndText
ValidateHeaderAndText(a) ==
    IF a.Header = <<>> /\ a.Text = <<>>
    THEN Err("header and text cannot both be empty", <<>>)
    ELSE NoError

\* Alert.ValidateIcon
ValidateIcon(a) ==
    IF a.IconEmoji = <<>> THEN NoError
    ELSE IF ~MatchIcon(a.IconEmoji) THEN Err("iconEmoji '%s' is not valid", <<>>)
    ELSE NoError

\* Alert.ValidateLink
ValidateLink(a) ==
    IF a.Link = <<>> THEN NoError
    ELSE LET url == ParseRequestURI(a.Link)
         IN  IF url.err THEN Err("link is not a valid absolute URL", <<>>)
             ELSE IF url.Scheme = <<>> THEN Err("link is not a valid absolute URL", <<>>)
             ELSE NoError

\* Alert.ValidateSeverity
ValidateSeverity(a) ==
    IF ~SeverityIsValid(a.Severity)
    THEN Err("severity '%s' is not valid, expected one of [%s]", <<>>)
    ELSE NoError

\* Alert.ValidateCorrelationID
ValidateCorrelationID(a) ==
    IF a.CorrelationID = <<>> THEN NoError
    ELSE IF ByteLen(a.CorrelationID) > MaxCorrelationIDLength
         THEN Err("correlationId is too long, expected length <=%d", <<>>)
         ELSE NoError

\* Alert.ValidateAutoResolve with both limits excluded (mutant)
ValidateAutoResolveStrict(a) ==
    IF ~a.IssueFollowUpEnabled THEN NoError
    ELSE IF a.AutoResolveSeconds <= MinAutoResolveSeconds
         THEN Err("autoResolveSeconds %d is too low, expected value >=%d", <<>>)
    ELSE IF a.AutoResolveSeconds >= MaxAutoResolveSeconds
         THEN Err("autoResolveSeconds %d is too high, expected value <=%d", <<>>)
    ELSE NoError

\* Alert.ValidateAutoResolve
ValidateAutoResolve(a) ==
    IF ~a.IssueFollowUpEnabled THEN NoError
    ELSE IF a.AutoResolveSeconds < MinAutoResolveSeconds
         THEN Err("autoResolveSeconds %d is too low, expected value >=%d", <<>>)
    ELSE IF a.AutoResolveSeconds > MaxAutoResolveSeconds
         THEN Err("autoResolveSeconds %d is too high, expected value <=%d", <<>>)
    ELSE NoError

\* Alert.ValidateIgnoreIfTextContains
ValidateIgnoreIfTextContains(a) ==
    LET items == a.IgnoreIfTextContains
        long == {i \in 1..Len(items) : ByteLen(items[i]) > MaxIgnoreIfTextContainsLength}
    IN  IF Len(items) = 0 THEN NoError
        ELSE IF Len(items) > MaxIgnoreIfTextContainsCount
             THEN Err("too many ignoreIfTextContains items, expected <=%d", <<>>)
        ELSE IF long # {}
             THEN Err("ignoreIfTextContains[%d] is too long, expected length <=%d", <<Min(long) - 1>>)
        ELSE NoError

\* Alert.ValidateFields
ValidateFields(a) ==
    IF Len(a.Fields) > MaxFieldCount
    THEN Err("too many fields, expected <=%d", <<>>)
    ELSE NoError

\* the checks of one plain-text input, given the input IDs seen so far in the webhook
ValidatePlainTextInput(input, index, inputIndex, inputIDs) ==
    LET at == <<index, inputIndex>>
    IN  IF input.nil THEN Err("webhook[%d].plainTextInput[%d] is nil", at)
        ELSE IF input.ID = <<>> THEN Err("webhook[%d].plainTextInput[%d].id is required", at)
        ELSE IF input.ID \in inputIDs
             THEN Err("webhook[%d].plainTextInput[%d].id must be unique among all inputs", at)
        ELSE IF ByteLen(input.ID) > MaxWebhookInputIDLength
             THEN Err("webhook[%d].plainTextInput[%d].id is too long, expected <=%d", at)
        ELSE IF ByteLen(input.Description) > MaxWebhookInputDescriptionLength
             THEN Err("webhook[%d].plainTextInput[%d].description is too long, expected <=%d", at)
        ELSE IF input.MinLength < 0
             THEN Err("webhook[%d].plainTextInput[%d].minLength must be >=0", at)
        ELSE IF input.MinLength > MaxWebhookInputTextLength
             THEN Err("webhook[%d].plainTextInput[%d].minLength must be <=%d", at)
        ELSE IF input.MaxLength < 0
             THEN Err("webhook[%d].plainTextInput[%d].maxLength must be >=0", at)
        ELSE IF input.MaxLength > MaxWebhookInputTextLength
             THEN Err("webhook[%d].plainTextInput[%d].maxLength must be <=%d", at)
        ELSE IF input.MaxLength < input.MinLength
             THEN Err("webhook[%d].plainTextInput[%d].maxLength cannot be smaller than minLength", at)
        ELSE IF ByteLen(input.InitialValue) > input.MaxLength
             THEN Err("webhook[%d].plainTextInput[%d].initialValue cannot be longer than maxLength", at)
        ELSE IF ByteLen(input.InitialValue) < input.MinLength
             THEN Err("webhook[%d].plainTextInput[%d].initialValue cannot be shorter than minLength", at)
        ELSE NoError

\* the loop over hook.PlainTextInput, from position k, with the IDs seen so far
RECURSIVE ValidatePlainTextInputs(_, _, _, _)
ValidatePlainTextInputs(hook, index, k, inputIDs) ==
    IF k > Len(hook.PlainTextInput) THEN NoError
    ELSE LET input == hook.PlainTextInput[k]
             e == ValidatePlainTextInput(input, index, k - 1, inputIDs)
         IN  IF e # NoError THEN e
             ELSE ValidatePlainTextInputs(hook, index, k + 1, inputIDs \cup {input.ID})

\* the loop over input.Options, from position k, with the values seen so far
RECURSIVE ValidateCheckboxOptions(_, _, _, _, _)
ValidateCheckboxOptions(options, index, inputIndex, k, values) ==
    IF k > Len(options) THEN NoError
    ELSE LET option == options[k]
             at == <<index, inputIndex, k - 1>>
         IN  IF option.nil
             THEN Err("webhook[%d].checkboxInput[%d].options[%d] is nil", at)
             ELSE IF option.Value = <<>>
             THEN Err("webhook[%d].checkboxInput[%d].options[%d].value is required", at)
             ELSE IF ByteLen(option.Value) > MaxCheckboxOptionValueLength
             THEN Err("webhook[%d].checkboxInput[%d].options[%d].value is too long, expected <=%d", at)
             ELSE IF option.Value \in values
             THEN Err("webhook[%d].checkboxInput[%d].options[%d].value must be unique", at)
             ELSE IF ByteLen(option.Text) > MaxWebhookCheckboxOptionTextLength
             THEN Err("webhook[%d].checkboxInput[%d].options[%d].text is too long, expected <=%d", at)
             ELSE ValidateCheckboxOptions(options, index, inputIndex, k + 1,
                                          values \cup {option.Value})

\* the checks of one checkbox input, given the input IDs seen so far in the webhook
ValidateCheckboxInput(input, index, inputIndex, inputIDs) ==
    LET at == <<index, inputIndex>>
    IN  IF input.nil THEN Err("webhook[%d].checkboxInput[%d] is nil", at)
        ELSE IF input.ID = <<>> THEN Err("webhook[%d].checkboxInput[%d].id is required", at)
        ELSE IF input.ID \in inputIDs
             THEN Err("webhook[%d].checkboxInput[%d].id must be unique among all inputs", at)
        ELSE IF ByteLen(input.ID) > MaxWebhookInputIDLength
             THEN Err("webhook[%d].checkboxInput[%d].id is too long, expected <=%d", at)
        ELSE IF ByteLen(input.Label) > MaxWebhookInputLabelLength
             THEN Err("webhook[%d].checkboxInput[%d].label is too long, expected <=%d", at)
        ELSE IF Len(input.Options) > MaxWebhookCheckboxOptionCount
             THEN Err("webhook[%d].checkboxInput[%d].options item count is too large, expected <=%d", at)
        ELSE ValidateCheckboxOptions(input.Options, index, inputIndex, 1, {})

\* the loop over hook.CheckboxInput, from position k, with the IDs seen so far
RECURSIVE ValidateCheckboxInputs(_, _, _, _)
ValidateCheckboxInputs(hook, index, k, inputIDs) ==
    IF k > Len(hook.CheckboxInput) THEN NoError
    ELSE LET input == hook.CheckboxInput[k]
             e == ValidateCheckboxInput(input, index, k - 1, inputIDs)
         IN  IF e # NoError THEN e
             ELSE ValidateCheckboxInputs(hook, index, k + 1, inputIDs \cup {input.ID})

\* the IDs of the plain-text inputs of a webhook whose plain-text loop passed
PlainTextInputIDs(hook) == {hook.PlainTextInput[k].ID : k \in 1..Len(hook.PlainTextInput)}

\* the input checks with the checkbox inputs looked at first (mutant)
ValidateWebhookInputsCheckboxFirst(hook, index) ==
    LET e == ValidateCheckboxInputs(hook, index, 1, {})
    IN  IF e # NoError THEN e
        ELSE ValidatePlainTextInputs(hook, index, 1,
                {hook.CheckboxInput[k].ID : k \in 1..Len(hook.CheckboxInput)})

\* the input checks with one ID set per input kind (mutant)
ValidateWebhookInputsSplit(hook, index) ==
    LET e == ValidatePlainTextInputs(hook, index, 1, {})
    IN  IF e # NoError THEN e
        ELSE ValidateCheckboxInputs(hook, index, 1, {})

\* the two input loops of one webhook: one inputIDs map for both
ValidateWebhookInputs(hook, index) ==
    LET e == ValidatePlainTextInputs(hook, index, 1, {})
    IN  IF e # NoError THEN e
        ELSE ValidateCheckboxInputs(hook, index, 1, PlainTextInputIDs(hook))

\* the ID uniqueness test of a webhook against the IDs seen so far,
\* comparing with the previous webhook only (mutant)
WebhookIDSeenAdjacent(hooks, k, webhookIDs) ==
    k > 1 /\ ~hooks[k - 1].nil /\ hooks[k - 1].ID = hooks[k].ID

\* _, ok := webhookIDs[hook.ID]
WebhookIDSeen(hooks, k, webhookIDs) == hooks[k].ID \in webhookIDs

\* the checks of the webhook at position k (index k-1), given the webhook IDs seen so far
ValidateWebhook(hooks, k, webhookIDs) ==
    LET hook == hooks[k]
        at == <<k - 1>>
        parsedURL == ParseRequestURI(hook.URL)
    IN  IF hook.nil THEN Err("webhook[%d] is nil", at)
        ELSE IF hook.ID = <<>> THEN Err("webhook[%d].id is required", at)
        ELSE IF ByteLen(hook.ID) > MaxWebhookIDLength
             THEN Err("webhook[%d].id is too long, expected length <=%d", at)
        ELSE IF WebhookIDSeen(hooks, k, webhookIDs)
             THEN Err("webhook[%d].id must be unique", at)
        ELSE IF hook.URL = <<>> THEN Err("webhook[%d].url is required", at)
        ELSE IF ByteLen(hook.URL) > MaxWebhookURLLength
             THEN Err("webhook[%d].url is too long, expected length <=%d", at)
        ELSE IF HasPrefix(ToLower(hook.URL), <<"h","t","t","p">>)
                /\ (parsedURL.err \/ parsedURL.Scheme = <<>> \/ parsedURL.Host = <<>>)
             THEN Err("webhook[%d].url is not a valid absolute URL", at)
        ELSE IF ~HasPrefix(ToLower(hook.URL), <<"h","t","t","p">>) /\ ~isValidASCII(hook.URL)
             THEN Err("webhook[%d].url contains invalid characters, expected printable ASCII", at)
        ELSE IF hook.ButtonText = <<>> THEN Err("webhook[%d].buttonText is required", at)
        ELSE IF ByteLen(hook.ButtonText) > MaxWebhookButtonTextLength
             THEN Err("webhook[%d].buttonText is too long, expected length <=%d", at)
        ELSE IF ByteLen(hook.ConfirmationText) > MaxWebhookConfirmationTextLength
             THEN Err("webhook[%d].confirmationText is too long, expected length <=%d", at)
        ELSE IF hook.ButtonStyle # <<>> /\ ~WebhookButtonStyleIsValid(hook.ButtonStyle)
             THEN Err("webhook[%d].buttonStyle '%s' is not valid, expected empty or one of [%s]", at)
        ELSE IF hook.AccessLevel # <<>> /\ ~WebhookAccessLevelIsValid(hook.AccessLevel)
             THEN Err("webhook[%d].accessLevel '%s' is not valid, expected empty or one of [%s]", at)
        ELSE IF hook.DisplayMode # <<>> /\ ~WebhookDisplayModeIsValid(hook.DisplayMode)
             THEN Err("webhook[%d].displayMode '%s' is not valid, expected empty or one of [%s]", at)
        ELSE IF Cardinality(hook.Payload) > MaxWebhookPayloadCount
             THEN Err("webhook[%d].payload item count is too large, expected <=%d", at)
        ELSE IF Len(hook.PlainTextInput) > MaxWebhookPlainTextInputCount
             THEN Err("webhook[%d].plainTextInput item count is too large, expected <=%d", at)
        ELSE IF Len(hook.CheckboxInput) > MaxWebhookCheckboxInputCount
             THEN Err("webhook[%d].checkboxInput item count is too large, expected <=%d", at)
        ELSE ValidateWebhookInputs(hook, k - 1)

\* the loop over a.Webhooks, from position k, with the webhook IDs seen so far
RECURSIVE ValidateWebhooksFrom(_, _, _)
ValidateWebhooksFrom(hooks, k, webhookIDs) ==
    IF k > Len(hooks) THEN NoError
    ELSE LET e == ValidateWebhook(hooks, k, webhookIDs)
         IN  IF e # NoError THEN e
             ELSE ValidateWebhooksFrom(hooks, k + 1, webhookIDs \cup {hooks[k].ID})

\* Alert.ValidateWebhooks
ValidateWebhooks(a) ==
    IF a.Webhooks = <<>> THEN NoError
    ELSE IF Len(a.Webhooks) > MaxWebhookCount
         THEN Err("too many webhooks, expected <=%d", <<>>)
    ELSE ValidateWebhooksFrom(a.Webhooks, 1, {})

\* the spacing test with the floor test only (mutant)
EscalationTooCloseNever(previousDelay, e) == FALSE

\* previousDelay > 0 && e.DelaySeconds-previousDelay < MinEscalationDelayDiffSeconds
EscalationTooClose(previousDelay, e) ==
    previousDelay > 0 /\ e.DelaySeconds - previousDelay < MinEscalationDelayDiffSeconds

\* the checks of the escalation at position k with the severity tested as an
\* alert severity (mutant)
ValidateEscalationEntryAnySeverity(e, k, previousDelay) ==
    LET at == <<k - 1>>
    IN  IF e.nil THEN Err("escalation[%d] is nil", at)
        ELSE IF e.DelaySeconds < MinEscalationDelaySeconds
             THEN Err("escalation[%d].delaySeconds '%d' is too low, expected value >=%d", at)
        ELSE IF EscalationTooClose(previousDelay, e)
             THEN Err("escalation[%d].delaySeconds '%d' is too small compared to previous escalation, expected diff >=%d", at)
        ELSE IF ~SeverityIsValid(e.Severity)
             THEN Err("escalation[%d].severity '%s' is not valid, expected one of [panic, error, warning]", at)
        ELSE NoError

\* the checks of the escalation at position k (index k-1), given the previous delay
ValidateEscalationEntry(e, k, previousDelay) ==
    LET at == <<k - 1>>
        badMentions == {j \in 1..Len(e.SlackMentions) : ~MatchSlackMention(e.SlackMentions[j])}
    IN  IF e.nil THEN Err("escalation[%d] is nil", at)
        ELSE IF e.DelaySeconds < MinEscalationDelaySeconds
             THEN Err("escalation[%d].delaySeconds '%d' is too low, expected value >=%d", at)
        ELSE IF EscalationTooClose(previousDelay, e)
             THEN Err("escalation[%d].delaySeconds '%d' is too small compared to previous escalation, expected diff >=%d", at)
        ELSE IF e.Severity \notin {<<"p","a","n","i","c">>, <<"e","r","r","o","r">>,
                                   <<"w","a","r","n","i","n","g">>}
             THEN Err("escalation[%d].severity '%s' is not valid, expected one of [panic, error, warning]", at)
        ELSE IF Len(e.SlackMentions) > MaxEscalationSlackMentionCount
             THEN Err("escalation[%d].slackMentions item count is too large, expected <=%d", at)
        ELSE IF badMentions # {}
             THEN Err("escalation[%d].slackMentions[%d] is not valid", <<k - 1, Min(badMentions) - 1>>)
        ELSE IF e.MoveToChannel # <<>> /\ ~MatchSlackChannelIDOrName(e.MoveToChannel)
             THEN Err("escalation[%d].moveToChannel is not valid", at)
        ELSE NoError

\* the loop over a.Escalation, from position k, with the previous delay
RECURSIVE ValidateEscalationFrom(_, _, _)
ValidateEscalationFrom(es, k, previousDelay) ==
    IF k > Len(es) THEN NoError
    ELSE LET e == ValidateEscalationEntry(es[k], k, previousDelay)
         IN  IF e # NoError THEN e
             ELSE ValidateEscalationFrom(es, k + 1, es[k].DelaySeconds)

\* Alert.ValidateEscalation
ValidateEscalation(a) ==
    IF a.Escalation = <<>> THEN NoError
    ELSE IF Len(a.Escalation) > MaxEscalationCount
         THEN Err("too many escalation points, expected <=%d", <<>>)
    ELSE ValidateEscalationFrom(a.Escalation, 1, 0)

\* the chain of checks of Validate, in order; the first error is returned
FirstError(errs) ==
    LET failing == {i \in 1..Len(errs) : errs[i] # NoError}
    IN  IF failing = {} THEN NoError ELSE errs[Min(failing)]

\* Validate with the severity checked before everything else (mutant)
ValidateSeverityFirst(a) ==
    IF a.nil THEN Err("alert is nil", <<>>)
    ELSE FirstError(<<ValidateSeverity(a),
                      ValidateSlackChannelIDAndRouteKey(a),
                      ValidateHeaderAndText(a),
                      ValidateIcon(a),
                      ValidateLink(a),
                      ValidateCorrelationID(a),
                      ValidateAutoResolve(a),
                      ValidateFields(a),
                      ValidateWebhooks(a),
                      ValidateEscalation(a),
                      ValidateIgnoreIfTextContains(a)>>)

\* Alert.Validate
Validate(a) ==
    IF a.nil THEN Err("alert is nil", <<>>)
    ELSE FirstError(<<ValidateSlackChannelIDAndRouteKey(a),
                      ValidateHeaderAndText(a),
                      ValidateIcon(a),
                      ValidateLink(a),
                      ValidateSeverity(a),
                      ValidateCorrelationID(a),
                      ValidateAutoResolve(a),
                      ValidateFields(a),
                      ValidateWebhooks(a),
                      ValidateEscalation(a),
                      ValidateIgnoreIfTextContains(a)>>)

(***************************************************************************)
(* UniqueID and hash                                                       *)
(***************************************************************************)
\* strconv.Itoa, for n >= 0
RECURSIVE Itoa(_)
Itoa(n) == IF n < 10 THEN <<Digits[n + 1]>> ELSE Itoa(n \div 10) \o <<Digits[(n % 10) + 1]>>

\* t.UTC().Format(time.RFC3339Nano): a rendering of the instant alone, whatever
\* the location of t; written here as the seconds of the instant followed by "Z"
FormatUTC(t) == Itoa(t.sec) \o <<"Z">>

\* the bytes the digest absorbs: each input followed by the delimiter byte 0
RECURSIVE Absorbed(_)
Absorbed(input) ==
    IF input = <<>> THEN <<>>
    ELSE Bytes(Head(input)) \o <<"x00">> \o Absorbed(Tail(input))

\* sha256.Size: the number of bytes of a digest
Sha256Size == 32

\* SHA-256 is not computed.  It is taken to be collision-free: the digest of a
\* byte stream is some value of Sha256Size bytes, the same whenever the same
\* bytes are absorbed and different for different bytes.  The digests the
\* model draws from: every byte 0, every byte 251, and mixed bytes.
Digests ==
    {[i \in 1..Sha256Size |-> b] : b \in {0, 251}}
        \cup {[i \in 1..Sha256Size |-> (i * 37) % 256]}

\* h.Write(...) and h.Sum(nil), as a step: the digest of the absorbed bytes is
\* the one already computed for them, or else one that no other bytes have
Sha256(bytes) ==
    IF bytes \in DOMAIN digests THEN digests' = digests
    ELSE \E d \in Digests \ Range(digests) :
            digests' = [x \in DOMAIN digests \cup {bytes} |->
                            IF x = bytes THEN d ELSE digests[x]]

\* the alphabet of base64.URLEncoding
encodeURL == SubSeq(UpperRunes, 1, 26) \o SubSeq(LowerRunes, 1, 26) \o Digits \o <<"-", "_">>

\* base64.StdPadding
StdPadding == "="

\* (*Encoding).Encode: the encoding of the group of up to three bytes of src
\* that starts at k, padded to four characters
EncodeGroup(src, k) ==
    LET n == Len(src) - k + 1
        val == src[k] * 65536
               + (IF n >= 2 THEN src[k + 1] * 256 ELSE 0)
               + (IF n >= 3 THEN src[k + 2] ELSE 0)
        c(shift) == encodeURL[((val \div shift) % 64) + 1]
    IN  IF n >= 3 THEN <<c(262144), c(4096), c(64), c(1)>>
        ELSE IF n = 2 THEN <<c(262144), c(4096), c(64), StdPadding>>
        ELSE <<c(262144), c(4096), StdPadding, StdPadding>>

\* base64.URLEncoding.EncodeToString(src)
RECURSIVE EncodeFrom(_, _)
EncodeFrom(src, k) ==
    IF k > Len(src) THEN <<>> ELSE EncodeGroup(src, k) \o EncodeFrom(src, k + 3)

\* (src is bound first, so that it is evaluated once)
EncodeToString(src) ==
    LET bytes == src
    IN  EncodeFrom(bytes, 1)

\* hash, within the call that computes the digest: bs := h.Sum(nil), the digest
\* of the absorbed bytes, and its encoding
hash(input) ==
    LET bs == digests'[Absorbed(input)]
    IN  EncodeToString(bs)

AlertTag == <<"a","l","e","r","t">>

\* the arguments of hash without the route key (mutant)
UniqueIDInputNoRouteKey(a) ==
    <<AlertTag, a.SlackChannelID, a.CorrelationID, FormatUTC(a.Timestamp), a.Header, a.Text>>

\* the arguments of hash with Header and Text exchanged (mutant)
UniqueIDInputSwapped(a) ==
    <<AlertTag, a.SlackChannelID, a.RouteKey, a.CorrelationID, FormatUTC(a.Timestamp),
      a.Text, a.Header>>

\* the arguments Alert.UniqueID passes to hash
UniqueIDInput(a) ==
    <<AlertTag, a.SlackChannelID, a.RouteKey, a.CorrelationID, FormatUTC(a.Timestamp),
      a.Header, a.Text>>

\* Alert.UniqueID
UniqueID(a) == hash(UniqueIDInput(a))

\* hash of the tests (alert_test.go), called once the digest has been computed
CanonicalHash(input) == EncodeToString(digests[Absorbed(input)])

(***************************************************************************)
(* Operations                                                              *)
(***************************************************************************)
Returned(op, err, id) == [op |-> op, err |-> err, id |-> id, clock |-> now]

NoResult == [op |-> "none", err |-> NoError, id |-> <<>>, clock |-> 0]

\* a.Clean(): on a nil receiver the first field access panics, so it is not called
CallClean ==
    /\ ~alert.nil
    /\ cleans < MaxCleans
    /\ before' = alert
    /\ alert' = Clean(alert, now)
    /\ cleans' = cleans + 1
    /\ staleCalls' = IF TimeSince(alert.Timestamp, now) > MaxTimestampAge
                     THEN staleCalls + 1 ELSE staleCalls
    /\ result' = Returned("Clean", NoError, <<>>)
    /\ UNCHANGED <<other, now, ticks, otherResult, digests, callback, args, returned>>

\* a.Validate() that normalizes the alert before it checks it (mutant)
CallValidateCleaning ==
    /\ ~alert.nil
    /\ before' = alert
    /\ alert' = Clean(alert, now)
    /\ result' = Returned("Validate", Validate(alert'), <<>>)
    /\ UNCHANGED <<other, now, ticks, cleans, staleCalls, otherResult, digests, callback, args, returned>>

\* a.Validate()
CallValidate ==
    /\ before' = alert
    /\ result' = Returned("Validate", Validate(alert), <<>>)
    /\ UNCHANGED <<alert, other, now, ticks, cleans, staleCalls, otherResult, digests, callback, args, returned>>

\* a.ValidateSlackChannelIDAndRouteKey()
CallValidateSlackChannelIDAndRouteKey ==
    /\ ~alert.nil
    /\ before' = alert
    /\ result' = Returned("ValidateSlackChannelIDAndRouteKey",
                          ValidateSlackChannelIDAndRouteKey(alert), <<>>)
    /\ UNCHANGED <<alert, other, now, ticks, cleans, staleCalls, otherResult, digests, callback, args, returned>>

\* a.ValidateWebhooks()
CallValidateWebhooks ==
    /\ ~alert.nil
    /\ before' = alert
    /\ result' = Returned("ValidateWebhooks", ValidateWebhooks(alert), <<>>)
    /\ UNCHANGED <<alert, other, now, ticks, cleans, staleCalls, otherResult, digests, callback, args, returned>>

\* a.ValidateEscalation()
CallValidateEscalation ==
    /\ ~alert.nil
    /\ before' = alert
    /\ result' = Returned("ValidateEscalation", ValidateEscalation(alert), <<>>)
    /\ UNCHANGED <<alert, other, now, ticks, cleans, staleCalls, otherResult, digests, callback, args, returned>>

\* the sub-checks of Validate that are called on their own
PartNames ==
    {"ValidateHeaderAndText", "ValidateIcon", "ValidateLink", "ValidateSeverity",
     "ValidateCorrelationID", "ValidateAutoResolve", "ValidateIgnoreIfTextContains",
     "ValidateFields"}

ValidatePart(part, a) ==
    CASE part = "ValidateHeaderAndText" -> ValidateHeaderAndText(a)
      [] part = "ValidateIcon" -> ValidateIcon(a)
      [] part = "ValidateLink" -> ValidateLink(a)
      [] part = "ValidateSeverity" -> ValidateSeverity(a)
      [] part = "ValidateCorrelationID" -> ValidateCorrelationID(a)
      [] part = "ValidateAutoResolve" -> ValidateAutoResolve(a)
      [] part = "ValidateIgnoreIfTextContains" -> ValidateIgnoreIfTextContains(a)
      [] part = "ValidateFields" -> ValidateFields(a)

\* a.ValidateHeaderAndText(), a.ValidateIcon(), ... a.ValidateFields()
CallValidatePart ==
    /\ ~alert.nil
    /\ \E part \in PartNames :
          /\ before' = alert
          /\ result' = Returned(part, ValidatePart(part, alert), <<>>)
    /\ UNCHANGED <<alert, other, now, ticks, cleans, staleCalls, otherResult, digests, callback, args, returned>>

\* a.UniqueID()
CallUniqueID ==
    /\ ~alert.nil
    /\ before' = alert
    /\ Sha256(Absorbed(UniqueIDInput(alert)))
    /\ result' = Returned("UniqueID", NoError, UniqueID(alert))
    /\ UNCHANGED <<alert, other, now, ticks, cleans, staleCalls, otherResult, callback, args, returned>>

\* b.UniqueID(), on the second alert
CallUniqueIDOther ==
    /\ ~other.nil
    /\ Sha256(Absorbed(UniqueIDInput(other)))
    /\ otherResult' = Returned("UniqueID", NoError, UniqueID(other))
    /\ UNCHANGED <<alert, other, now, ticks, cleans, staleCalls, before, result, callback, args, returned>>

\* the wall clock advances, by a second or by the maximum timestamp age
Tick ==
    /\ ticks < MaxTicks
    /\ \E d \in {1, MaxTimestampAge} : now' = now + d
    /\ ticks' = ticks + 1
    /\ UNCHANGED <<alert, other, cleans, staleCalls, before, result, otherResult, digests, callback, args, returned>>

\* SeverityIsValid(s), SeverityPriority(s) and ValidSeverities()
CallSeverityIsValid ==
    /\ returned' = [op |-> "SeverityIsValid", value |-> SeverityIsValid(args.s)]
    /\ UNCHANGED <<alert, other, now, ticks, cleans, staleCalls, before, result, otherResult,
                   digests, callback, args>>

CallSeverityPriority ==
    /\ returned' = [op |-> "SeverityPriority", value |-> SeverityPriority(args.s)]
    /\ UNCHANGED <<alert, other, now, ticks, cleans, staleCalls, before, result, otherResult,
                   digests, callback, args>>

CallValidSeverities ==
    /\ returned' = [op |-> "ValidSeverities", value |-> ValidSeverities]
    /\ UNCHANGED <<alert, other, now, ticks, cleans, staleCalls, before, result, otherResult,
                   digests, callback, args>>

\* the membership tests and the listings of the three webhook enumerations
CallWebhookButtonStyleIsValid ==
    /\ returned' = [op |-> "WebhookButtonStyleIsValid", value |-> WebhookButtonStyleIsValid(args.s)]
    /\ UNCHANGED <<alert, other, now, ticks, cleans, staleCalls, before, result, otherResult,
                   digests, callback, args>>

CallValidWebhookButtonStyles ==
    /\ returned' = [op |-> "ValidWebhookButtonStyles", value |-> ValidWebhookButtonStyles]
    /\ UNCHANGED <<alert, other, now, ticks, cleans, staleCalls, before, result, otherResult,
                   digests, callback, args>>

CallWebhookAccessLevelIsValid ==
    /\ returned' = [op |-> "WebhookAccessLevelIsValid", value |-> WebhookAccessLevelIsValid(args.s)]
    /\ UNCHANGED <<alert, other, now, ticks, cleans, staleCalls, before, result, otherResult,
                   digests, callback, args>>

CallValidWebhookAccessLevels ==
    /\ returned' = [op |-> "ValidWebhookAccessLevels", value |-> ValidWebhookAccessLevels]
    /\ UNCHANGED <<alert, other, now, ticks, cleans, staleCalls, before, result, otherResult,
                   digests, callback, args>>

CallWebhookDisplayModeIsValid ==
    /\ returned' = [op |-> "WebhookDisplayModeIsValid", value |-> WebhookDisplayModeIsValid(args.s)]
    /\ UNCHANGED <<alert, other, now, ticks, cleans, staleCalls, before, result, otherResult,
                   digests, callback, args>>

CallValidWebhookDisplayModes ==
    /\ returned' = [op |-> "ValidWebhookDisplayModes", value |-> ValidWebhookDisplayModes]
    /\ UNCHANGED <<alert, other, now, ticks, cleans, staleCalls, before, result, otherResult,
                   digests, callback, args>>

(***************************************************************************)
(* WebhookCallback.  A map is nil or holds a function from keys to values; *)
(* a value of type any carries its dynamic type.                           *)
(***************************************************************************)
NilMap == [nil |-> TRUE]

NewMap(m) == [nil |-> FALSE, m |-> m]

AnyNil == [type |-> "nil", v |-> <<>>]

AnyString(s) == [type |-> "string", v |-> s]

AnyInt(n) == [type |-> "int", v |-> n]

AnyFloat64(n) == [type |-> "float64", v |-> n]

AnyBool(b) == [type |-> "bool", v |-> b]

\* v, ok := m[key]: reading a nil map finds nothing
MapIndex(map, key) ==
    IF ~map.nil /\ key \in DOMAIN map.m
    THEN [ok |-> TRUE, v |-> map.m[key]]
    ELSE [ok |-> FALSE, v |-> AnyNil]

\* WebhookCallback.GetPayloadValue
GetPayloadValue(w, key) ==
    IF w.nil \/ w.Payload.nil THEN AnyString(<<>>)
    ELSE LET e == MapIndex(w.Payload, key)
         IN  IF e.ok THEN e.v ELSE AnyNil

\* WebhookCallback.GetPayloadString
GetPayloadString(w, key) ==
    IF w.nil \/ w.Payload.nil THEN <<>>
    ELSE LET e == MapIndex(w.Payload, key)
         IN  IF e.ok /\ e.v.type = "string" THEN e.v.v ELSE <<>>

\* WebhookCallback.GetPayloadInt returning 0 where the default is due (mutant)
GetPayloadIntOrZero(w, key, defaultValue) ==
    IF w.nil \/ w.Payload.nil THEN defaultValue
    ELSE LET e == MapIndex(w.Payload, key)
         IN  IF e.ok /\ e.v.type = "int" THEN e.v.v ELSE 0

\* WebhookCallback.GetPayloadInt
GetPayloadInt(w, key, defaultValue) ==
    IF w.nil \/ w.Payload.nil THEN defaultValue
    ELSE LET e == MapIndex(w.Payload, key)
         IN  IF e.ok /\ e.v.type = "int" THEN e.v.v ELSE defaultValue

\* WebhookCallback.GetPayloadBool
GetPayloadBool(w, key, defaultValue) ==
    IF w.nil \/ w.Payload.nil THEN defaultValue
    ELSE LET e == MapIndex(w.Payload, key)
         IN  IF e.ok /\ e.v.type = "bool" THEN e.v.v ELSE defaultValue

\* WebhookCallback.GetInputValue
GetInputValue(w, key) ==
    IF w.nil \/ w.Input.nil THEN <<>>
    ELSE LET e == MapIndex(w.Input, key)
         IN  IF e.ok THEN e.v ELSE <<>>

\* WebhookCallback.GetCheckboxInputSelectedValues
GetCheckboxInputSelectedValues(w, key) ==
    IF w.nil \/ w.CheckboxInput.nil THEN <<>>
    ELSE LET e == MapIndex(w.CheckboxInput, key)
         IN  IF e.ok THEN e.v ELSE <<>>

\* the getters, called on the callback with the arguments
CallGetPayloadValue ==
    /\ returned' = [op |-> "GetPayloadValue", value |-> GetPayloadValue(callback, args.key)]
    /\ UNCHANGED <<alert, other, now, ticks, cleans, staleCalls, before, result, otherResult,
                   digests, callback, args>>

CallGetPayloadString ==
    /\ returned' = [op |-> "GetPayloadString", value |-> GetPayloadString(callback, args.key)]
    /\ UNCHANGED <<alert, other, now, ticks, cleans, staleCalls, before, result, otherResult,
                   digests, callback, args>>

CallGetPayloadInt ==
    /\ returned' = [op |-> "GetPayloadInt", value |-> GetPayloadInt(callback, args.key, args.defaultInt)]
    /\ UNCHANGED <<alert, other, now, ticks, cleans, staleCalls, before, result, otherResult,
                   digests, callback, args>>

CallGetPayloadBool ==
    /\ returned' = [op |-> "GetPayloadBool", value |-> GetPayloadBool(callback, args.key, args.defaultBool)]
    /\ UNCHANGED <<alert, other, now, ticks, cleans, staleCalls, before, result, otherResult,
                   digests, callback, args>>

CallGetInputValue ==
    /\ returned' = [op |-> "GetInputValue", value |-> GetInputValue(callback, args.key)]
    /\ UNCHANGED <<alert, other, now, ticks, cleans, staleCalls, before, result, otherResult,
                   digests, callback, args>>

CallGetCheckboxInputSelectedValues ==
    /\ returned' = [op |-> "GetCheckboxInputSelectedValues", value |-> GetCheckboxInputSelectedValues(callback, args.key)]
    /\ UNCHANGED <<alert, other, now, ticks, cleans, staleCalls, before, result, otherResult,
                   digests, callback, args>>

(***************************************************************************)
(* Input alerts                                                            *)
(***************************************************************************)
\* the clock at the start: late enough for a zero timestamp to be stale
StartClock == 3 * MaxTimestampAge

ZeroTime == [sec |-> 0, loc |-> "UTC"]

\* the zero Alert, with a timestamp of the start
BaseAlert ==
    [nil |-> FALSE,
     Timestamp |-> [sec |-> StartClock, loc |-> "UTC"],
     CorrelationID |-> <<>>, Type |-> <<>>,
     Header |-> <<>>, HeaderWhenResolved |-> <<>>,
     Text |-> <<>>, TextWhenResolved |-> <<>>, FallbackText |-> <<>>,
     Author |-> <<>>, Host |-> <<>>, Footer |-> <<>>, Link |-> <<>>,
     IssueFollowUpEnabled |-> FALSE, AutoResolveSeconds |-> 0,
     AutoResolveAsInconclusive |-> FALSE,
     Severity |-> <<>>, SlackChannelID |-> <<>>, RouteKey |-> <<>>,
     Username |-> <<>>, IconEmoji |-> <<>>,
     Fields |-> <<>>,
     NotificationDelaySeconds |-> 0, ArchivingDelaySeconds |-> 0,
     Escalation |-> <<>>, IgnoreIfTextContains |-> <<>>, Webhooks |-> <<>>,
     Metadata |-> {}, FailOnRateLimitError |-> FALSE]

NewField(title, value) == [nil |-> FALSE, Title |-> title, Value |-> value]

\* addr is the address the pointer holds: it tells the entries of a list apart
NewEscalation(severity, delay, mentions, channel) ==
    [nil |-> FALSE, addr |-> 0, Severity |-> severity, DelaySeconds |-> delay,
     SlackMentions |-> mentions, MoveToChannel |-> channel]

NewPlainTextInput(id, min, max, initial) ==
    [nil |-> FALSE, ID |-> id, Description |-> <<>>, MinLength |-> min, MaxLength |-> max,
     Multiline |-> FALSE, InitialValue |-> initial]

NewCheckboxOption(value) ==
    [nil |-> FALSE, Value |-> value, Text |-> <<>>, Selected |-> FALSE]

NewCheckboxInput(id, options) ==
    [nil |-> FALSE, ID |-> id, Label |-> <<>>, Options |-> options]

NewWebhook(id, url, text, plain, checkbox) ==
    [nil |-> FALSE, ID |-> id, URL |-> url, ConfirmationText |-> <<>>, ButtonText |-> text,
     ButtonStyle |-> <<>>, AccessLevel |-> <<>>, DisplayMode |-> <<>>, Payload |-> {},
     PlainTextInput |-> plain, CheckboxInput |-> checkbox]

\* all sequences over S of length at most n
RECURSIVE SeqsUpTo(_, _)
SeqsUpTo(S, n) ==
    IF n = 0 THEN {<<>>}
    ELSE LET shorter == SeqsUpTo(S, n - 1)
         IN  shorter \cup {Append(q, x) : q \in {r \in shorter : Len(r) = n - 1}, x \in S}

\* Text inputs placed around a length bound N
TextCases == 1..16

TextCase(c, N) ==
    CASE c = 1 -> <<"F", "o", "o">>
      [] c = 2 -> <<" ", "F", "o", "\n", "b", " ">>
      [] c = 3 -> Rep("a", N)
      [] c = 4 -> Rep("a", N + 1)
      [] c = 5 -> Rep("U+65E5", N + 1)
      [] c = 6 -> Rep("a", N - 5) \o <<" ", " ">> \o Rep("b", 6)
      [] c = 7 -> <<" ">> \o Rep("a", N) \o <<"\n">>
      [] c = 8 -> Rep("a", N - 2) \o Fence
      [] c = 9 -> Rep("a", N - 8) \o <<" ", " ">> \o Rep("b", 6) \o Fence
      [] c = 10 -> <<":", "s", "t", "a", ":", "s", "t", "a", "t", "u", "s", ":", "t", "u", "s", ":">>
      [] c = 11 -> <<"x", " ">> \o StatusToken \o <<"\n", "y", " ">>
      [] c = 12 -> Rep("a", N - 4) \o <<"\n">> \o Rep("U+00E9", 6)
      [] c = 13 -> <<" ", "\t", "\n">>
      [] c = 14 -> Rep("U+1F600", N + 1) \o Fence \o <<" ">>
      [] c = 15 -> Rep("a", N - 3) \o StatusToken
      [] c = 16 -> <<>>

NextCase(c) == (c % 16) + 1

\* an alert whose text fields all hold case c (the "when resolved" fields and the
\* field values the next case), each relative to its own bound
TextAlert(c, t) ==
    [BaseAlert EXCEPT
        !.Timestamp = t,
        !.Type = <<" ", "M", "e", "t", "r", "i", "c", "s", " ">>,
        !.Severity = IF c % 3 = 0 THEN <<" ", "C", "R", "I", "T", "I", "C", "A", "L", " ">> ELSE IF c % 3 = 1 THEN <<>> ELSE <<"W", "a", "r", "n", "i", "n", "g">>,
        !.SlackChannelID = <<" ", "c", "1", "2", "3", "4", "5", "6", "7", "8", " ">>,
        !.ArchivingDelaySeconds = 0 - c,
        !.NotificationDelaySeconds = c - 8,
        !.Header = TextCase(c, MaxHeaderLength),
        !.HeaderWhenResolved = TextCase(NextCase(c), MaxHeaderLength),
        !.Text = TextCase(c, MaxTextLength),
        !.TextWhenResolved = TextCase(NextCase(c), MaxTextLength),
        !.FallbackText = TextCase(c, MaxFallbackTextLength),
        !.Author = TextCase(c, MaxAuthorLength),
        !.Host = TextCase(c, MaxHostLength),
        !.Username = TextCase(c, MaxUsernameLength),
        !.Footer = TextCase(c, MaxFooterLength),
        !.Fields = <<NewField(TextCase(c, MaxFieldTitleLength),
                              TextCase(NextCase(c), MaxFieldValueLength)),
                     NIL,
                     NewField(TextCase(NextCase(c), MaxFieldTitleLength),
                              TextCase(c, MaxFieldValueLength))>>]

\* timestamps: of the start, unset, and exactly the maximum age old at the start
InputTimestamps ==
    {[sec |-> StartClock, loc |-> "UTC"],
     ZeroTime,
     [sec |-> StartClock - MaxTimestampAge, loc |-> "Local"]}

TextAlerts == {TextAlert(c, t) : c \in TextCases, t \in InputTimestamps}

(***************************************************************************)
(* Specifications                                                          *)
(***************************************************************************)
\* no arguments drawn, no function called
NoArgs == [s |-> <<>>, key |-> <<>>, defaultInt |-> 0, defaultBool |-> FALSE]

NoReturn == [op |-> "none", value |-> <<>>]

InitWith(alerts, others) ==
    /\ alert \in alerts
    /\ other \in others
    /\ now = StartClock
    /\ ticks = 0
    /\ cleans = 0
    /\ staleCalls = 0
    /\ before = alert
    /\ result = NoResult
    /\ otherResult = NoResult
    /\ digests = <<>>
    /\ callback = NIL
    /\ args = NoArgs
    /\ returned = NoReturn

\* Cleaning of the text fields
InitClean == InitWith(TextAlerts, {NIL})

NextClean == CallClean \/ CallValidate \/ Tick

SpecClean == InitClean /\ [][NextClean]_vars

\* an alert that passes Validate: a header and a severity
ValidAlert == [BaseAlert EXCEPT !.Header = <<"h">>, !.Severity = <<"e", "r", "r", "o", "r">>]

\* Escalation lists
EscalationKinds ==
    {NIL,
     NewEscalation(<<"e", "r", "r", "o", "r">>, 29, <<>>, <<>>),
     NewEscalation(<<"e", "r", "r", "o", "r">>, 30, <<>>, <<>>),
     NewEscalation(<<"e", "r", "r", "o", "r">>, 59, <<>>, <<>>),
     NewEscalation(<<"e", "r", "r", "o", "r">>, 60, <<>>, <<>>),
     NewEscalation(<<" ", "P", "a", "n", "i", "c", " ">>, 60, <<<<" ", "<", "!", "h", "e", "r", "e", ">", " ">>>>, <<" ", "c", "1", " ">>),
     NewEscalation(<<"w", "a", "r", "n", "i", "n", "g">>, 90, <<>>, <<>>)}

\* every non-nil entry of a list is a pointer of its own
WithAddresses(es) == [i \in 1..Len(es) |-> IF es[i].nil THEN es[i] ELSE [es[i] EXCEPT !.addr = i]]

EscalationAlerts ==
    {[ValidAlert EXCEPT !.Escalation = WithAddresses(es)] :
        es \in SeqsUpTo(EscalationKinds, MaxEscLen)}

\* Cleaning and validation of the escalations
InitEsc == InitWith(EscalationAlerts, {NIL})

NextEsc == CallClean \/ CallValidate \/ CallValidateEscalation

SpecEsc == InitEsc /\ [][NextEsc]_vars

\* Destinations: channel identifiers and route keys around their patterns and bounds
ChannelInputs ==
    {<<>>, <<"C", "1", "2", "3", "4", "5", "6", "7", "8">>, <<"c", "_", "1", "-", "x">>, <<"C", " ", "1">>, <<"C", "#", "1">>, <<"C", "U+00E9">>, <<" ", " ">>,
     Rep("A", MaxSlackChannelIDLength), Rep("A", MaxSlackChannelIDLength + 1)}

RouteKeyInputs ==
    {<<>>, <<"r", "k">>, Rep("a", MaxRouteKeyLength), Rep("a", MaxRouteKeyLength + 1),
     Rep("U+00E9", (MaxRouteKeyLength \div 2) + 1),
     <<" ">> \o Rep("A", MaxRouteKeyLength)}

DestinationAlerts ==
    {[BaseAlert EXCEPT !.SlackChannelID = c, !.RouteKey = r, !.Header = h, !.Severity = <<"e", "r", "r", "o", "r">>] :
        c \in ChannelInputs, r \in RouteKeyInputs, h \in {<<>>, <<"h">>}}

\* Cleaning and validation of the destination
InitDest == InitWith(DestinationAlerts, {NIL})

NextDest == CallClean \/ CallValidate \/ CallValidateSlackChannelIDAndRouteKey

SpecDest == InitDest /\ [][NextDest]_vars

\* Webhooks
GoodURL == <<"h", "t", "t", "p", "s", ":", "/", "/", "a", ".", "i", "o", "/", "b">>
InputX == NewPlainTextInput(<<"x">>, 0, 10, <<>>)
CheckX == NewCheckboxInput(<<"x">>, <<NewCheckboxOption(<<"1">>)>>)
CheckY == NewCheckboxInput(<<"y">>, <<NewCheckboxOption(<<"1">>), NewCheckboxOption(<<"2">>)>>)

WebhookKinds ==
    {NIL,
     NewWebhook(<<"f", "o", "o">>, GoodURL, <<"G", "o">>, <<>>, <<>>),
     NewWebhook(<<"b", "a", "r">>, <<"h", "a", "n", "d", "l", "e", "r">>, <<"G", "o">>, <<>>, <<>>),
     NewWebhook(<<" ", "f", "o", "o", " ">>, GoodURL, <<"G", "o">>, <<>>, <<>>),
     NewWebhook(<<>>, GoodURL, <<"G", "o">>, <<>>, <<>>),
     NewWebhook(<<"f", "o", "o">>, <<"h", "t", "t", "p", ":", "n", "o", "h", "o", "s", "t">>, <<"G", "o">>, <<>>, <<>>),
     NewWebhook(<<"f", "o", "o">>, GoodURL, <<"G", "o">>, <<InputX>>, <<CheckY>>),
     NewWebhook(<<"b", "a", "r">>, GoodURL, <<"G", "o">>, <<InputX>>, <<CheckY>>),
     NewWebhook(<<"b", "a", "z">>, GoodURL, <<"G", "o">>, <<InputX>>, <<CheckY, CheckX>>),
     NewWebhook(<<"b", "a", "z">>, GoodURL, <<"G", "o">>, <<>>, <<CheckY, CheckX, CheckY>>),
     NewWebhook(<<"q", "u", "x">>, GoodURL, <<"G", "o">>, <<InputX, InputX>>, <<>>)}

\* three webhooks whose IDs repeat at different places
RepeatedWebhooks ==
    LET hook(id) == NewWebhook(id, GoodURL, <<"G", "o">>, <<InputX>>, <<CheckY>>)
        ids == {<<"f", "o", "o">>, <<"b", "a", "r">>}
    IN  {<<hook(i), hook(j), hook(k)>> : i \in ids, j \in ids, k \in ids}

WebhookAlerts ==
    {[ValidAlert EXCEPT !.Webhooks = hooks] :
        hooks \in SeqsUpTo(WebhookKinds, MaxHooks) \cup RepeatedWebhooks}

\* Cleaning and validation of the webhooks
InitHooks == InitWith(WebhookAlerts, {NIL})

NextHooks == CallClean \/ CallValidate \/ CallValidateWebhooks

SpecHooks == InitHooks /\ [][NextHooks]_vars

\* Identities: pairs of alerts over a few values of the hashed and of other fields
IdentityAlerts ==
    {[BaseAlert EXCEPT !.SlackChannelID = c, !.RouteKey = r, !.CorrelationID = k,
                       !.Timestamp = t, !.Header = h, !.Text = x, !.Author = u] :
        c \in {<<>>, <<"C">>},
        r \in {<<>>, <<"r">>},
        k \in {<<"c">>, <<"c", "x00">>},
        t \in {[sec |-> StartClock, loc |-> "UTC"], [sec |-> StartClock, loc |-> "Local"],
               [sec |-> StartClock + 1, loc |-> "UTC"]},
        h \in {<<"h">>, <<"x00", "h">>},
        x \in {<<>>, <<"t">>},
        u \in {<<>>, <<"u">>}}

\* the second alert of a pair: a dozen of them, with an author
OtherIdentityAlerts ==
    {a \in IdentityAlerts :
        /\ a.Author # <<>>
        /\ a.SlackChannelID # <<>>
        /\ a.RouteKey # <<>>
        /\ a.Text # <<>>}

InitId == InitWith(IdentityAlerts, OtherIdentityAlerts)

NextId == CallUniqueID \/ CallUniqueIDOther

SpecId == InitId /\ [][NextId]_vars

\* Identities of alerts whose Header and Text split the same characters at
\* different places, exchange them, or hold the delimiter byte
BoundaryAlerts ==
    {[ValidAlert EXCEPT !.SlackChannelID = <<"C", "1", "2", "3", "4", "5", "6", "7", "8">>, !.Header = p[1], !.Text = p[2]] :
        p \in {<<<<"a", "b">>, <<"c">>>>, <<<<"a">>, <<"b", "c">>>>, <<<<"a", "b", "c">>, <<>>>>, <<<<"c">>, <<"a", "b">>>>,
               <<<<"b", "c">>, <<"a">>>>, <<<<"a", "x00">>, <<"b">>>>, <<<<"a">>, <<"x00", "b">>>>,
               <<<<"a", "x00", "b">>, <<>>>>, <<<<"a">>, <<"b", "x00">>>>,
               <<<<"a", "x00", "x00">>, <<>>>>, <<<<"a">>, <<"x00">>>>}}

InitBoundary == InitWith(BoundaryAlerts, BoundaryAlerts)

NextBoundary == CallUniqueID \/ CallUniqueIDOther \/ CallClean \/ CallValidate

SpecBoundary == InitBoundary /\ [][NextBoundary]_vars

\* Alerts that break any of the rules of Validate, several at once
OrderAlerts ==
    {[BaseAlert EXCEPT !.SlackChannelID = c, !.Header = h, !.IconEmoji = i, !.Link = l,
                       !.Severity = s, !.CorrelationID = k, !.IssueFollowUpEnabled = f,
                       !.Fields = fs, !.Webhooks = w, !.Escalation = e,
                       !.IgnoreIfTextContains = g] :
        c \in {<<>>, <<"C", "#", "1">>},
        h \in {<<"h">>, <<>>},
        i \in {<<>>, <<"s", "m", "i", "l", "e">>},
        l \in {<<>>, <<"n", "o", "l", "i", "n", "k">>},
        s \in {<<"e", "r", "r", "o", "r">>, <<"b", "o", "g", "u", "s">>},
        k \in {<<>>, Rep("k", MaxCorrelationIDLength + 1)},
        f \in BOOLEAN,
        fs \in {<<>>, Rep(NewField(<<"t">>, <<"v">>), MaxFieldCount + 1)},
        w \in {<<>>, <<NIL>>},
        e \in {<<>>, <<NIL>>},
        g \in {<<>>, Rep(<<"x">>, MaxIgnoreIfTextContainsCount + 1)}}

\* Validation of alerts that break several rules, and of no alert
InitOrder == InitWith(OrderAlerts \cup {NIL}, {NIL})

NextOrder == CallClean \/ CallValidate

SpecOrder == InitOrder /\ [][NextOrder]_vars

\* Alerts with nil entries in their lists, and values that are not normalized
InputSp == NewPlainTextInput(<<" ", "x", " ">>, 0, 10, <<>>)
CheckSp == NewCheckboxInput(<<" ", "y", " ">>, <<NewCheckboxOption(<<"1">>)>>)

NilWebhookKinds ==
    LET hook(id, plain, checkbox) == NewWebhook(id, GoodURL, <<"G", "o">>, plain, checkbox)
    IN  {NIL,
         hook(<<" ", "f", "o", "o", " ">>, <<InputSp>>, <<CheckSp>>),
         hook(<<"f", "o", "o">>, <<NIL>>, <<>>),
         hook(<<"f", "o", "o">>, <<InputSp, NIL>>, <<CheckSp>>),
         hook(<<"b", "a", "r">>, <<>>, <<NIL>>),
         hook(<<"b", "a", "r">>, <<InputSp>>, <<CheckSp, NIL>>),
         hook(<<"b", "a", "z">>, <<>>, <<NewCheckboxInput(<<"y">>, <<NIL>>)>>),
         hook(<<"b", "a", "z">>, <<>>, <<CheckSp, NewCheckboxInput(<<"z">>, <<NewCheckboxOption(<<"1">>), NIL>>)>>),
         hook(<<"q", "u", "x">>, <<NIL>>, <<NIL>>),
         hook(<<>>, <<>>, <<NIL>>)}

\* the escalations and the fields of such an alert
NilListKinds ==
    LET e(delay) == NewEscalation(<<" ", "E", "r", "r", "o", "r", " ">>, delay, <<>>, <<" ", "c", "1", " ">>)
        ok(delay) == NewEscalation(<<"e", "r", "r", "o", "r">>, delay, <<>>, <<>>)
        f == NewField(<<" ", "t", " ">>, <<" ", "v", " ">>)
    IN  {<<<<>>, <<>>>>,
         <<<<NIL>>, <<NIL, f>>>>,
         <<<<ok(60), NIL>>, <<f, NIL>>>>,
         <<<<NIL, e(30), NIL>>, <<NIL>>>>}

NilAlerts ==
    {[ValidAlert EXCEPT !.Webhooks = hooks, !.Escalation = WithAddresses(lists[1]),
                        !.Fields = lists[2]] :
        hooks \in SeqsUpTo(NilWebhookKinds, MaxHooks), lists \in NilListKinds}

\* Cleaning and validation of alerts with nil entries, and of no alert
InitNil == InitWith(NilAlerts \cup {NIL}, {NIL})

NextNil == CallClean \/ CallValidate

SpecNil == InitNil /\ [][NextNil]_vars

\* Timestamps around the staleness limit, in both zones
DefaultTimestamps ==
    {ZeroTime,
     [sec |-> StartClock + 100, loc |-> "UTC"],
     [sec |-> StartClock + 2 * MaxTimestampAge, loc |-> "Local"]}
    \cup {[sec |-> StartClock - MaxTimestampAge + d, loc |-> loc] :
            d \in {-1, 0, 1, 2}, loc \in {"UTC", "Local"}}
    \cup {[sec |-> StartClock - d, loc |-> "UTC"] : d \in {0, 1}}

DefaultSeverities ==
    {<<>>, <<"c", "r", "i", "t", "i", "c", "a", "l">>, <<" ", "C", "R", "I", "T", "I", "C", "A", "L", " ">>, <<" ", " ">>, <<"C", "r", "i", "t", "i", "c", "a", "l">>, <<" ", "P", "a", "n", "i", "c", " ">>, <<"E", "R", "R", "O", "R">>,
     <<"b", "o", "g", "u", "s">>, <<" ", "c", "r", "i", "t", "i", "c", "a", "l", " ", "e", "r", "r", "o", "r", " ">>, <<"w", "a", "r", "n", "i", "n", "g">>, <<"r", "e", "s", "o", "l", "v", "e", "d">>, <<"i", "n", "f", "o">>}

\* Alerts with a header and a channel or with nothing, of any age and severity
DefaultAlerts ==
    {[BaseAlert EXCEPT !.Timestamp = t, !.Severity = sev, !.Header = d[1],
                       !.SlackChannelID = d[2]] :
        t \in DefaultTimestamps, sev \in DefaultSeverities,
        d \in {<<<<>>, <<>>>>, <<<<"f", "o", "o">>, <<"c", "1", "2", "3", "4", "5", "6", "7", "8">>>>, <<<<"f", "o", "o">>, <<"C", "1", "2", "3", "4", "5", "6", "7", "8">>>>}}

\* Cleaning and validation as time passes
InitDefaults == InitWith(DefaultAlerts, {NIL})

NextDefaults == CallClean \/ CallValidate \/ Tick

SpecDefaults == InitDefaults /\ [][NextDefaults]_vars

\* Alerts with auto-resolve delays around both limits, with and without follow-up
AutoResolveAlerts ==
    {[ValidAlert EXCEPT !.IssueFollowUpEnabled = enabled, !.AutoResolveSeconds = seconds,
                        !.Text = text] :
        enabled \in BOOLEAN,
        seconds \in {-2147483647, -1, 0, 1, MinAutoResolveSeconds - 1, MinAutoResolveSeconds,
                     MinAutoResolveSeconds + 1, 3600, MaxAutoResolveSeconds - 1,
                     MaxAutoResolveSeconds, MaxAutoResolveSeconds + 1, 2147483647},
        text \in {<<>>, <<" ", "t", " ">>}}

\* Cleaning, validation and the single checks of alerts with auto-resolve delays
InitAuto == InitWith(AutoResolveAlerts, {NIL})

NextAuto == CallClean \/ CallValidate \/ CallValidatePart

SpecAuto == InitAuto /\ [][NextAuto]_vars

\* Escalations of every severity, 30 seconds apart from a first delay
EscalationSeverities ==
    {<<"p", "a", "n", "i", "c">>, <<"e", "r", "r", "o", "r">>, <<"w", "a", "r", "n", "i", "n", "g">>, <<"r", "e", "s", "o", "l", "v", "e", "d">>, <<"i", "n", "f", "o">>, <<>>, <<" ", "P", "a", "n", "i", "c", " ">>}

SeverityEscalations(severities, first) ==
    [k \in 1..Len(severities) |->
        NewEscalation(severities[k], first + (k - 1) * MinEscalationDelayDiffSeconds, <<>>, <<>>)]

EscalationSeverityAlerts ==
    {[ValidAlert EXCEPT !.Escalation = WithAddresses(SeverityEscalations(severities, first))] :
        severities \in SeqsUpTo(EscalationSeverities, MaxEscLen),
        first \in {MinEscalationDelaySeconds - 1, MinEscalationDelaySeconds}}

\* Cleaning and validation of escalations of every severity
InitEscSeverity == InitWith(EscalationSeverityAlerts, {NIL})

NextEscSeverity == CallClean \/ CallValidate \/ CallValidateEscalation

SpecEscSeverity == InitEscSeverity /\ [][NextEscSeverity]_vars

\* A few alerts of each kind
MixedAlerts ==
    {TextAlert(c, ZeroTime) : c \in {2, 10}}
        \cup {a \in EscalationAlerts : Len(a.Escalation) <= 2}
        \cup {a \in WebhookAlerts : Len(a.Webhooks) <= 1}
        \cup {a \in DestinationAlerts : a.Header # <<>> /\ Len(a.RouteKey) <= 2}

\* Validate and every sub-check, before and after Clean
InitValidate == InitWith(MixedAlerts, {NIL})

NextValidate ==
    \/ CallClean
    \/ CallValidate
    \/ CallValidateSlackChannelIDAndRouteKey
    \/ CallValidateWebhooks
    \/ CallValidateEscalation
    \/ CallValidatePart

SpecValidate == InitValidate /\ [][NextValidate]_vars

\* the members of an enumeration, and strings close to them
NearMembers(members) ==
    UNION {{m, ToUpper(m), <<" ">> \o m, m \o <<" ">>, SubSeq(m, 1, Len(m) - 1), m \o <<"s">>,
            <<ToUpper(<<m[1]>>)[1]>> \o SubSeq(m, 2, Len(m))} : m \in members}
    \cup {<<>>, <<"c", "r", "i", "t", "i", "c", "a", "l">>, <<"i", "n", "v", "a", "l", "i", "d">>, <<"d", "e", "f", "a", "u", "l", "t">>, <<"x00">>}

\* the state with no alert and no callback, before a call with one of the arguments
InitCall(callbacks, arguments) ==
    /\ alert = NIL
    /\ other = NIL
    /\ now = StartClock
    /\ ticks = 0
    /\ cleans = 0
    /\ staleCalls = 0
    /\ before = alert
    /\ result = NoResult
    /\ otherResult = NoResult
    /\ digests = <<>>
    /\ callback \in callbacks
    /\ args \in arguments
    /\ returned = NoReturn

\* The severity functions on the five severities and on strings close to them
SeverityInputs == NearMembers({ValidSeverities[i] : i \in 1..Len(ValidSeverities)})

InitSeverity == InitCall({NIL}, {[NoArgs EXCEPT !.s = s] : s \in SeverityInputs})

NextSeverity == CallSeverityIsValid \/ CallSeverityPriority \/ CallValidSeverities

SpecSeverity == InitSeverity /\ [][NextSeverity]_vars

\* Alerts with one webhook whose style, level and mode are members of the
\* enumerations, empty, or other strings
EnumAlerts ==
    {[ValidAlert EXCEPT !.Webhooks =
        <<[NewWebhook(<<"w">>, GoodURL, <<"G", "o">>, <<>>, <<>>)
              EXCEPT !.ButtonStyle = style, !.AccessLevel = level, !.DisplayMode = mode]>>] :
        style \in {<<>>, <<"p", "r", "i", "m", "a", "r", "y">>, <<"d", "a", "n", "g", "e", "r">>, <<"d", "e", "f", "a", "u", "l", "t">>, <<"P", "r", "i", "m", "a", "r", "y">>, <<"a", "l", "w", "a", "y", "s">>},
        level \in {<<>>, <<"g", "l", "o", "b", "a", "l", "_", "a", "d", "m", "i", "n", "s">>, <<"c", "h", "a", "n", "n", "e", "l", "_", "a", "d", "m", "i", "n", "s">>, <<"c", "h", "a", "n", "n", "e", "l", "_", "m", "e", "m", "b", "e", "r", "s">>,
                   <<"a", "d", "m", "i", "n", "s">>, <<"d", "a", "n", "g", "e", "r">>},
        mode \in {<<>>, <<"a", "l", "w", "a", "y", "s">>, <<"o", "p", "e", "n", "_", "i", "s", "s", "u", "e">>, <<"r", "e", "s", "o", "l", "v", "e", "d", "_", "i", "s", "s", "u", "e">>, <<"o", "p", "e", "n">>, <<" ", "a", "l", "w", "a", "y", "s">>}}

EnumInputs ==
    NearMembers({ValidWebhookButtonStyles[i] : i \in 1..Len(ValidWebhookButtonStyles)}
                \cup {ValidWebhookAccessLevels[i] : i \in 1..Len(ValidWebhookAccessLevels)}
                \cup {ValidWebhookDisplayModes[i] : i \in 1..Len(ValidWebhookDisplayModes)})

\* The enumeration functions on strings, and validation of the webhooks
InitEnum ==
    \/ InitWith(EnumAlerts, {NIL})
    \/ InitCall({NIL}, {[NoArgs EXCEPT !.s = s] : s \in EnumInputs})

NextEnum ==
    \/ CallClean
    \/ CallValidate
    \/ CallValidateWebhooks
    \/ CallWebhookButtonStyleIsValid
    \/ CallValidWebhookButtonStyles
    \/ CallWebhookAccessLevelIsValid
    \/ CallValidWebhookAccessLevels
    \/ CallWebhookDisplayModeIsValid
    \/ CallValidWebhookDisplayModes

SpecEnum == InitEnum /\ [][NextEnum]_vars

\* Alerts with one webhook with one plain-text input: lengths around 0, around
\* each other and around the ceiling, initial values of one and two bytes a character
InitialValues ==
    {<<>>, <<"a">>, <<"a", "b">>, <<"a", "b", "c">>, <<"U+00E9">>, <<"U+00E9", "U+00E9">>,
     [i \in 1..MaxWebhookInputTextLength |-> "a"],
     [i \in 1..(MaxWebhookInputTextLength + 1) |-> "a"]}

PlainTextInputAlerts ==
    LET lengths == {-1, 0, 1, 2, 3, MaxWebhookInputTextLength, MaxWebhookInputTextLength + 1}
    IN  {[ValidAlert EXCEPT !.Webhooks =
            <<NewWebhook(<<"w">>, GoodURL, <<"G", "o">>,
                         <<NewPlainTextInput(<<"x">>, min, max, initial)>>, <<>>)>>] :
            min \in lengths, max \in lengths, initial \in InitialValues}

\* Validation of the plain-text inputs
InitInputs == InitWith(PlainTextInputAlerts, {NIL})

NextInputs == CallClean \/ CallValidate \/ CallValidateWebhooks

SpecInputs == InitInputs /\ [][NextInputs]_vars

\* Callbacks: none, and callbacks whose three maps are nil, empty, or hold
\* values of every type under the keys "k" and "j"
Payloads ==
    {NilMap, NewMap(<<>>)}
    \cup {NewMap([key \in {<<"k">>} |-> v]) :
            v \in {AnyString(<<"v", "a", "l", "u", "e">>), AnyString(<<>>), AnyInt(123), AnyInt(0), AnyFloat64(123),
                   AnyBool(TRUE), AnyBool(FALSE), AnyNil}}
    \cup {NewMap([key \in {<<"k">>, <<"j">>} |-> IF key = <<"k">> THEN AnyInt(7) ELSE AnyString(<<"x">>)])}

Callbacks ==
    {NIL}
    \cup {[nil |-> FALSE, Payload |-> payload, Input |-> input, CheckboxInput |-> checkbox] :
            payload \in Payloads,
            input \in {NilMap, NewMap(<<>>), NewMap([key \in {<<"k">>} |-> <<"v", "a", "l", "u", "e">>])},
            checkbox \in {NilMap, NewMap(<<>>),
                          NewMap([key \in {<<"k">>} |-> <<<<"v", "a", "l", "u", "e", "1">>, <<"v", "a", "l", "u", "e", "2">>>>])}}

GetterArgs ==
    {[NoArgs EXCEPT !.key = key, !.defaultInt = n, !.defaultBool = b] :
        key \in {<<"k">>, <<"j">>, <<"K">>, <<>>}, n \in {0, 42}, b \in BOOLEAN}

\* The getters of a callback
InitCallback == InitCall(Callbacks, GetterArgs)

NextCallback ==
    \/ CallGetPayloadValue
    \/ CallGetPayloadString
    \/ CallGetPayloadInt
    \/ CallGetPayloadBool
    \/ CallGetInputValue
    \/ CallGetCheckboxInputSelectedValues

SpecCallback == InitCallback /\ [][NextCallback]_vars

\* Alerts whose Fields hold nil entries and fields to trim, and nothing else
NilFieldAlerts ==
    {[ValidAlert EXCEPT !.Fields = fields] :
        fields \in SeqsUpTo({NIL, NewField(<<" ", "t", " ">>, <<" ", "v", " ">>), NewField(<<"t">>, <<"v">>)},
                            MaxFieldsLen)}

InitFields == InitWith(NilFieldAlerts, {NIL})

NextFields == CallClean \/ CallValidate \/ CallValidatePart

SpecFields == InitFields /\ [][NextFields]_vars

\* Identities before and after cleaning: alerts whose six hashed fields are to
\* be normalized (a padded header, one with a status token, two over the bound;
\* a padded channel, route key and correlation ID; a zero, a local or a UTC
\* timestamp), each with its copy cleaned once
\* the text cases of a padded, a truncated, a fenced and a status-token text
StableCases == [padded |-> 2, truncated |-> 6, fenced |-> 9, status |-> 11]

StableAlert(h, x, t, r) ==
    [BaseAlert EXCEPT
        !.SlackChannelID = <<" ", "c", "1", "2", "3", "4", "5", "6", "7", "8", " ">>,
        !.RouteKey = r,
        !.CorrelationID = <<" ", " ", "i", "d", " ", " ">>,
        !.Timestamp = t,
        !.Header = TextCase(h, MaxHeaderLength),
        !.Text = TextCase(x, MaxTextLength)]

StableAlerts ==
    {StableAlert(StableCases.padded, StableCases.status, t, r) : t \in InputTimestamps, r \in {<<>>, <<" ", "R", "o", "u", "t", "e", " ">>}}
    \cup {StableAlert(h, StableCases.padded, [sec |-> StartClock, loc |-> "UTC"], <<" ", "R", "o", "u", "t", "e", " ">>) :
            h \in {StableCases.truncated, StableCases.fenced, StableCases.status}}

InitStable == \E a \in StableAlerts : InitWith({a}, {Clean(a, StartClock)})

NextStable == CallClean \/ CallUniqueID \/ CallUniqueIDOther \/ Tick

SpecStable == InitStable /\ [][NextStable]_vars

\* Every operation
Init == InitWith(MixedAlerts, {ValidAlert})

Next ==
    \/ CallClean
    \/ CallValidate
    \/ CallValidateSlackChannelIDAndRouteKey
    \/ CallValidateWebhooks
    \/ CallValidateEscalation
    \/ CallValidatePart
    \/ CallUniqueID
    \/ CallUniqueIDOther
    \/ Tick

Spec == Init /\ [][Next]_vars

(***************************************************************************)
(* Claims                                                                  *)
(***************************************************************************)
\* the last operation was Clean; before is its argument and alert its outcome
Cleaned == result.op = "Clean"

\* C1: Clean is idempotent.  When no Clean call found the timestamp stale, a
\* second Clean changes nothing: every field of the alert after the second call
\* equals the field after the first.
C1_CleanIdempotent ==
    (Cleaned /\ cleans >= 2 /\ staleCalls = 0) => alert = before

\* The length-bounded fields of Clean other than the two texts: the input as
\* normalized before the length test, the value after Clean, the bound, and
\* whether the kept prefix is trimmed before the ellipsis is appended.
Bounded(in, out, max, trims) == [in |-> in, out |-> out, max |-> max, trims |-> trims]

BoundedFields(b, a) ==
    {Bounded(ReplaceNewlines(TrimSpace(ReplaceAll(b.FallbackText, StatusToken, <<>>))),
             a.FallbackText, MaxFallbackTextLength, FALSE),
     Bounded(ReplaceNewlines(TrimSpace(b.Header)), a.Header, MaxHeaderLength, TRUE),
     Bounded(ReplaceNewlines(TrimSpace(b.HeaderWhenResolved)), a.HeaderWhenResolved,
             MaxHeaderLength, TRUE),
     Bounded(TrimSpace(b.Author), a.Author, MaxAuthorLength, TRUE),
     Bounded(TrimSpace(b.Host), a.Host, MaxHostLength, TRUE),
     Bounded(TrimSpace(b.Username), a.Username, MaxUsernameLength, TRUE),
     Bounded(TrimSpace(b.Footer), a.Footer, MaxFooterLength, TRUE)}
    \cup {Bounded(TrimSpace(b.Fields[i].Title), a.Fields[i].Title, MaxFieldTitleLength, TRUE) :
            i \in {k \in 1..Len(b.Fields) : ~b.Fields[k].nil}}
    \cup {Bounded(TrimSpace(b.Fields[i].Value), a.Fields[i].Value, MaxFieldValueLength, TRUE) :
            i \in {k \in 1..Len(b.Fields) : ~b.Fields[k].nil}}

\* Text and TextWhenResolved: the trimmed input and the value after Clean
TextFields(b, a) ==
    {Bounded(TrimSpace(b.Text), a.Text, MaxTextLength, TRUE),
     Bounded(TrimSpace(b.TextWhenResolved), a.TextWhenResolved, MaxTextLength, TRUE)}

\* the fields C2 is about: the bounded fields, and the texts that do not end with a fence
EllipsisFields(b, a) ==
    BoundedFields(b, a) \cup {f \in TextFields(b, a) : ~HasSuffix(f.in, Fence)}

\* the value ends with the ellipsis and what precedes it is a prefix of the input
EllipsisAfterPrefix(f) ==
    /\ HasSuffix(f.out, Ellipsis)
    /\ HasPrefix(f.in, SubSeq(f.out, 1, Len(f.out) - 3))

\* C2 as stated: whenever the normalized input of a length-bounded field has more
\* than N codepoints, the cleaned value has exactly N codepoints, ends with "..."
\* and the part before the ellipsis is a codepoint prefix of the input.
C2_TruncationExact ==
    Cleaned =>
        \A f \in EllipsisFields(before, alert) :
            Len(f.in) > f.max => Len(f.out) = f.max /\ EllipsisAfterPrefix(f)

\* C2 as amended: whenever the normalized input of a length-bounded field has
\* more than N codepoints, the cleaned value has at most N codepoints, ends with
\* "..." and the part before the ellipsis is a codepoint prefix of the input; it
\* has exactly N codepoints for FallbackText, and for the other fields whenever
\* codepoint N-3 of the input is not whitespace (the kept prefix is trimmed
\* before the ellipsis is appended).
C2_TruncationBounded ==
    Cleaned =>
        \A f \in EllipsisFields(before, alert) :
            Len(f.in) > f.max =>
                /\ Len(f.out) <= f.max
                /\ (~f.trims \/ ~IsSpace(f.in[f.max - 3])) => Len(f.out) = f.max
                /\ EllipsisAfterPrefix(f)

\* C2 witness: a Clean that truncated a field of multi-byte runes to exactly its
\* bound, and another whose kept prefix ended in whitespace to less than its bound
C2_Witness ==
    /\ Cleaned
    /\ \E f \in EllipsisFields(before, alert) :
            Len(f.in) > f.max /\ UTF8Len(f.in[1]) = 3 /\ Len(f.out) = f.max
    /\ \E f \in EllipsisFields(before, alert) :
            Len(f.in) > f.max /\ Len(f.out) < f.max

\* C3 as stated: whenever the trimmed input of Text or TextWhenResolved has more
\* than 10000 codepoints and ends with the code fence, the value after Clean
\* ends with the ellipsis followed by the fence and has exactly 10000 codepoints.
C3_FenceExact ==
    Cleaned =>
        \A f \in TextFields(before, alert) :
            (Len(f.in) > MaxTextLength /\ HasSuffix(f.in, Fence)) =>
                HasSuffix(f.out, Ellipsis \o Fence) /\ Len(f.out) = MaxTextLength

\* C3 as amended: whenever the trimmed input of Text or TextWhenResolved has more
\* than 10000 codepoints and ends with the code fence, the value after Clean
\* ends with the ellipsis followed by the fence and has at most 10000
\* codepoints, exactly 10000 whenever codepoint 9994 of the input is not
\* whitespace.
C3_FenceBounded ==
    Cleaned =>
        \A f \in TextFields(before, alert) :
            (Len(f.in) > MaxTextLength /\ HasSuffix(f.in, Fence)) =>
                /\ HasSuffix(f.out, Ellipsis \o Fence)
                /\ Len(f.out) <= MaxTextLength
                /\ ~IsSpace(f.in[MaxTextLength - 6]) => Len(f.out) = MaxTextLength

\* C3 witness: a Clean of a text that is too long and ends with a fence, cut to
\* exactly the bound, and of another cut to less
C3_Witness ==
    /\ Cleaned
    /\ \E f \in TextFields(before, alert) :
            Len(f.in) > MaxTextLength /\ HasSuffix(f.in, Fence) /\ Len(f.out) = MaxTextLength
    /\ \E f \in TextFields(before, alert) :
            Len(f.in) > MaxTextLength /\ HasSuffix(f.in, Fence) /\ Len(f.out) < MaxTextLength

\* C4: after Clean no automatically truncated field exceeds its maximum, counted
\* in codepoints.
C4_WithinBounds ==
    Cleaned =>
        /\ RuneCountInString(alert.FallbackText) <= MaxFallbackTextLength
        /\ RuneCountInString(alert.Header) <= MaxHeaderLength
        /\ RuneCountInString(alert.HeaderWhenResolved) <= MaxHeaderLength
        /\ RuneCountInString(alert.Text) <= MaxTextLength
        /\ RuneCountInString(alert.TextWhenResolved) <= MaxTextLength
        /\ RuneCountInString(alert.Author) <= MaxAuthorLength
        /\ RuneCountInString(alert.Host) <= MaxHostLength
        /\ RuneCountInString(alert.Username) <= MaxUsernameLength
        /\ RuneCountInString(alert.Footer) <= MaxFooterLength
        /\ \A i \in 1..Len(alert.Fields) :
                ~alert.Fields[i].nil =>
                    /\ RuneCountInString(alert.Fields[i].Title) <= MaxFieldTitleLength
                    /\ RuneCountInString(alert.Fields[i].Value) <= MaxFieldValueLength

\* C4 witness: a Clean of an alert whose text, footer and a field title were all
\* longer than their maximum, one of them in more bytes than codepoints
C4_Witness ==
    /\ Cleaned
    /\ RuneCountInString(before.Text) > MaxTextLength
    /\ RuneCountInString(before.Footer) > MaxFooterLength
    /\ ByteLen(before.Footer) > RuneCountInString(before.Footer)
    /\ \E i \in 1..Len(before.Fields) :
            ~before.Fields[i].nil /\ RuneCountInString(before.Fields[i].Title) > MaxFieldTitleLength

\* the delays of a list, -1 standing for a nil entry
Delays(es) == [i \in 1..Len(es) |-> IF es[i].nil THEN -1 ELSE es[i].DelaySeconds]

NonNil(es) == {i \in 1..Len(es) : ~es[i].nil}

\* C5: after Clean the Escalation list is a permutation of the list before (no
\* entry added, dropped or duplicated, each with its delay), every nil entry
\* precedes every non-nil entry, and the non-nil entries are in non-decreasing
\* order of DelaySeconds; delays [60, 30] become [30, 60].
C5_EscalationOrdering ==
    Cleaned =>
        LET in == before.Escalation
            out == alert.Escalation
        IN  /\ Len(out) = Len(in)
            /\ Cardinality(NonNil(out)) = Cardinality(NonNil(in))
            /\ \A i \in NonNil(in) :
                    Cardinality({j \in NonNil(out) :
                                    /\ out[j].addr = in[i].addr
                                    /\ out[j].DelaySeconds = in[i].DelaySeconds}) = 1
            /\ \A i, j \in 1..Len(out) :
                    i < j =>
                        /\ out[j].nil => out[i].nil
                        /\ (~out[i].nil /\ ~out[j].nil) => out[i].DelaySeconds <= out[j].DelaySeconds
            /\ (Delays(in) = <<60, 30>>) => Delays(out) = <<30, 60>>

\* C5 witness: a Clean of the escalations (60, nil, 30), which become (nil, 30, 60)
C5_Witness ==
    /\ Cleaned
    /\ Len(before.Escalation) = 3
    /\ NonNil(before.Escalation) = {1, 3}
    /\ before.Escalation[1].DelaySeconds = 60
    /\ before.Escalation[3].DelaySeconds = 30
    /\ NonNil(alert.Escalation) = {2, 3}
    /\ alert.Escalation[2].addr = 3
    /\ alert.Escalation[3].addr = 1

ActiveSeverities ==
    {<<"p","a","n","i","c">>, <<"e","r","r","o","r">>, <<"w","a","r","n","i","n","g">>}

\* an escalation that breaks none of the rules on its severity, mentions and channel
WellFormedEscalation(e) ==
    /\ ~e.nil
    /\ e.Severity \in ActiveSeverities
    /\ Len(e.SlackMentions) <= MaxEscalationSlackMentionCount
    /\ \A j \in 1..Len(e.SlackMentions) : MatchSlackMention(e.SlackMentions[j])
    /\ e.MoveToChannel = <<>> \/ MatchSlackChannelIDOrName(e.MoveToChannel)

ValidatedEscalation == result.op = "ValidateEscalation"

\* C6: ValidateEscalation, with or without a prior Clean, succeeds on a non-empty
\* list only if every entry's DelaySeconds is at least 30 and every entry after
\* the first lies at least 30 after its predecessor; delays [30, 59] fail at
\* escalation[1] as too small compared to the previous escalation, [30, 60]
\* pass, and [60, 30] fail.
C6_EscalationSpacing ==
    ValidatedEscalation =>
        LET es == alert.Escalation
            wellFormed == \A i \in 1..Len(es) : WellFormedEscalation(es[i])
        IN  /\ (result.err = NoError /\ es # <<>>) =>
                    /\ NonNil(es) = 1..Len(es)
                    /\ \A i \in 1..Len(es) : es[i].DelaySeconds >= 30
                    /\ \A i \in 2..Len(es) : es[i].DelaySeconds - es[i - 1].DelaySeconds >= 30
            /\ (wellFormed /\ Delays(es) = <<30, 59>>) =>
                    result.err = Err("escalation[%d].delaySeconds '%d' is too small compared to previous escalation, expected diff >=%d", <<1>>)
            /\ (wellFormed /\ Delays(es) = <<30, 60>>) => result.err = NoError
            /\ (Delays(es) = <<60, 30>>) => result.err # NoError

\* C6 witness: ValidateEscalation accepted a list of two escalations on an alert
\* that was never cleaned
C6_Witness ==
    /\ ValidatedEscalation
    /\ cleans = 0
    /\ result.err = NoError
    /\ Len(alert.Escalation) = 2

(***************************************************************************)
(* Destination                                                             *)
(***************************************************************************)
ValidatedDestination == result.op = "ValidateSlackChannelIDAndRouteKey"

InvalidChannel == Err("slackChannelId '%s' is not valid", <<>>)
RouteKeyTooLong == Err("routeKey is too long, expected length <=%d", <<>>)

\* C7: when SlackChannelID is non-empty the destination check passes exactly when
\* the channel ID matches the channel pattern, whatever the route key; when
\* SlackChannelID is empty it passes exactly when the route key has at most 1000
\* bytes; an alert with neither passes; Validate reports the destination first
C7_DestinationPrecedence ==
    /\ ValidatedDestination =>
          /\ alert.SlackChannelID # <<>> =>
                /\ MatchSlackChannelIDOrName(alert.SlackChannelID) => result.err = NoError
                /\ ~MatchSlackChannelIDOrName(alert.SlackChannelID) => result.err = InvalidChannel
          /\ alert.SlackChannelID = <<>> =>
                /\ ByteLen(alert.RouteKey) <= MaxRouteKeyLength => result.err = NoError
                /\ ByteLen(alert.RouteKey) > MaxRouteKeyLength => result.err = RouteKeyTooLong
          /\ (alert.SlackChannelID = <<>> /\ alert.RouteKey = <<>>) => result.err = NoError
    /\ result.op = "Validate" =>
          /\ (alert.SlackChannelID # <<>> /\ ~MatchSlackChannelIDOrName(alert.SlackChannelID))
                => result.err = InvalidChannel
          /\ alert.SlackChannelID # <<>> => result.err # RouteKeyTooLong
          /\ (alert.SlackChannelID = <<>> /\ ByteLen(alert.RouteKey) > MaxRouteKeyLength)
                => result.err = RouteKeyTooLong

\* a channel ID that matches, with a route key over the bound, has passed
C7_Witness ==
    /\ ValidatedDestination
    /\ MatchSlackChannelIDOrName(alert.SlackChannelID)
    /\ ByteLen(alert.RouteKey) > MaxRouteKeyLength
    /\ result.err = NoError

(***************************************************************************)
(* Webhooks                                                                *)
(***************************************************************************)
ValidatedWebhooks == result.op \in {"Validate", "ValidateWebhooks"}

\* the positions of the non-nil webhooks that carry the ID of an earlier one
RepeatPositions(hooks) ==
    {k \in 1..Len(hooks) :
        /\ ~hooks[k].nil
        /\ \E j \in 1..(k - 1) : ~hooks[j].nil /\ hooks[j].ID = hooks[k].ID}

NoNilWebhook(hooks) == \A k \in 1..Len(hooks) : ~hooks[k].nil

\* a webhook that passes every check when it stands alone
ValidAlone(hook) == ValidateWebhooks([ValidAlert EXCEPT !.Webhooks = <<hook>>]) = NoError

DuplicateWebhookID(i) == Err("webhook[%d].id must be unique", <<i>>)

\* C8: validation fails whenever two webhooks of the alert carry the same ID; the
\* error "webhook[i].id must be unique" names the first webhook whose ID repeats an
\* earlier one; webhooks that are valid alone, two of them with the same ID, fail
\* with that error at the first repeat (index 1 for two webhooks "foo"); an alert
\* that passes has pairwise distinct webhook IDs
C8_WebhookIDUnique ==
    ValidatedWebhooks =>
        LET hooks == alert.Webhooks
        IN  /\ RepeatPositions(hooks) # {} => result.err # NoError
            /\ \A i \in 0..(Len(hooks) - 1) :
                  result.err = DuplicateWebhookID(i) =>
                      /\ RepeatPositions(hooks) # {}
                      /\ i + 1 = Min(RepeatPositions(hooks))
            /\ (/\ NoNilWebhook(hooks)
                /\ \A k \in 1..Len(hooks) : ValidAlone(hooks[k])
                /\ RepeatPositions(hooks) # {})
                  => result.err = DuplicateWebhookID(Min(RepeatPositions(hooks)) - 1)
            /\ result.err = NoError =>
                  /\ NoNilWebhook(hooks)
                  /\ \A j, k \in 1..Len(hooks) : hooks[j].ID = hooks[k].ID => j = k

\* three valid webhooks, the third repeating the first, have failed at index 2
C8_Witness ==
    /\ result.op = "Validate"
    /\ Len(alert.Webhooks) = 3
    /\ alert.Webhooks[1].ID = alert.Webhooks[3].ID
    /\ alert.Webhooks[1].ID # alert.Webhooks[2].ID
    /\ result.err = DuplicateWebhookID(2)

\* the IDs of the inputs of a webhook, of both kinds, as a sequence
InputIDs(hook) ==
    [k \in 1..Len(hook.PlainTextInput) |-> hook.PlainTextInput[k].ID]
        \o [k \in 1..Len(hook.CheckboxInput) |-> hook.CheckboxInput[k].ID]

\* the positions of the checkbox inputs of a webhook that carry the ID of a
\* plain-text input or of an earlier checkbox input
ClashPositions(hook) ==
    {m \in 1..Len(hook.CheckboxInput) :
        \/ hook.CheckboxInput[m].ID \in PlainTextInputIDs(hook)
        \/ \E n \in 1..(m - 1) : hook.CheckboxInput[n].ID = hook.CheckboxInput[m].ID}

\* a webhook whose plain-text inputs pass together and whose checkbox inputs
\* each pass alone
ValidButForClashes(hook) ==
    /\ ~hook.nil
    /\ ValidAlone([hook EXCEPT !.CheckboxInput = <<>>])
    /\ \A m \in 1..Len(hook.CheckboxInput) :
          /\ ~hook.CheckboxInput[m].nil
          /\ ValidAlone([hook EXCEPT !.PlainTextInput = <<>>,
                                     !.CheckboxInput = <<hook.CheckboxInput[m]>>])

DuplicateCheckboxID(i, j) ==
    Err("webhook[%d].checkboxInput[%d].id must be unique among all inputs", <<i, j>>)

\* C9: in a webhook that passes, the IDs of the plain-text inputs and of the
\* checkbox inputs are pairwise distinct across both kinds; the error
\* "webhook[i].checkboxInput[j].id must be unique among all inputs" is reported
\* exactly for the first checkbox input whose ID is that of a plain-text input or
\* of an earlier checkbox input of the same webhook, when nothing else is wrong;
\* input IDs shared between different webhooks are accepted
C9_InputNamespace ==
    ValidatedWebhooks =>
        LET hooks == alert.Webhooks
            clashing == {k \in 1..Len(hooks) : ClashPositions(hooks[k]) # {}}
        IN  /\ result.err = NoError =>
                  \A k \in 1..Len(hooks) :
                      LET ids == InputIDs(hooks[k])
                      IN  \A m, n \in 1..Len(ids) : ids[m] = ids[n] => m = n
            /\ \A i \in 0..(Len(hooks) - 1) :
                  ~hooks[i + 1].nil =>
                      \A j \in 0..(Len(hooks[i + 1].CheckboxInput) - 1) :
                          result.err = DuplicateCheckboxID(i, j) =>
                              j + 1 = Min(ClashPositions(hooks[i + 1]))
            /\ (/\ \A k \in 1..Len(hooks) : ValidButForClashes(hooks[k])
                /\ RepeatPositions(hooks) = {})
                  => IF clashing = {} THEN result.err = NoError
                     ELSE result.err =
                            DuplicateCheckboxID(Min(clashing) - 1,
                                                Min(ClashPositions(hooks[Min(clashing)])) - 1)

\* a checkbox input with the ID of a plain-text input of its webhook has failed
\* Validate as a duplicate
C9_Witness ==
    /\ result.op = "Validate"
    /\ Len(alert.Webhooks) >= 1
    /\ ~alert.Webhooks[1].nil
    /\ \E j \in 1..Len(alert.Webhooks[1].CheckboxInput) :
          /\ alert.Webhooks[1].CheckboxInput[j].ID \in PlainTextInputIDs(alert.Webhooks[1])
          /\ result.err = DuplicateCheckboxID(0, j - 1)

\* two webhooks with different IDs and the same input IDs have passed
C9_WitnessShared ==
    /\ result.op = "ValidateWebhooks"
    /\ result.err = NoError
    /\ Len(alert.Webhooks) = 2
    /\ InputIDs(alert.Webhooks[1]) # <<>>
    /\ InputIDs(alert.Webhooks[1]) = InputIDs(alert.Webhooks[2])

(***************************************************************************)
(* Identity                                                                *)
(***************************************************************************)
\* the six values the identity is computed from
HashedValues(a) ==
    <<a.SlackChannelID, a.RouteKey, a.CorrelationID, FormatUTC(a.Timestamp), a.Header, a.Text>>

Differences(a, b) == {k \in 1..6 : HashedValues(a)[k] # HashedValues(b)[k]}

BothIdentified == result.op = "UniqueID" /\ otherResult.op = "UniqueID"

\* C10: two alerts that agree on SlackChannelID, RouteKey, CorrelationID, the UTC
\* rendering of Timestamp, Header and Text have the same UniqueID; two alerts that
\* differ in exactly one of the six have different UniqueIDs
C10_UniqueIDFunction ==
    BothIdentified =>
        /\ Differences(alert, other) = {} => result.id = otherResult.id
        /\ Cardinality(Differences(alert, other)) = 1 => result.id # otherResult.id

\* two different alerts that agree on the six values have the same identity
C10_Witness ==
    /\ BothIdentified
    /\ alert # other
    /\ alert.Timestamp # other.Timestamp
    /\ Differences(alert, other) = {}
    /\ result.id = otherResult.id

\* the ordered sequence the identity is defined over
CanonicalInput(a) ==
    <<AlertTag, a.SlackChannelID, a.RouteKey, a.CorrelationID, FormatUTC(a.Timestamp),
      a.Header, a.Text>>

\* id is the canonical hash of the canonical sequence of a
IsCanonicalID(id, a) ==
    /\ Absorbed(CanonicalInput(a)) \in DOMAIN digests
    /\ id = CanonicalHash(CanonicalInput(a))

\* C11: for every alert, UniqueID is the canonical hash (the digest of each input
\* followed by one byte 0, base64 URL encoded) of the sequence ("alert",
\* SlackChannelID, RouteKey, CorrelationID, Timestamp in UTC, Header, Text)
C11_UniqueIDCanonical ==
    /\ result.op = "UniqueID" => IsCanonicalID(result.id, alert)
    /\ otherResult.op = "UniqueID" => IsCanonicalID(otherResult.id, other)

\* the identity of an alert with all six values set, one of them with a byte 0,
\* has been computed
C11_Witness ==
    /\ result.op = "UniqueID"
    /\ alert.SlackChannelID # <<>> /\ alert.RouteKey # <<>> /\ alert.Text # <<>>
    /\ "x00" \in Range(alert.Header)
    /\ IsCanonicalID(result.id, alert)

\* the characters A-Z, a-z, 0-9, '-' and '_'
URLSafeCharacters ==
    AsciiLetters \cup Range(Digits) \cup {"-", "_"}

\* C12: every identifier returned consists only of the characters A-Z, a-z, 0-9,
\* '-' and '_' and contains no '=' padding character
C12_PaddingFree ==
    result.op = "UniqueID" =>
        \A i \in 1..Len(result.id) :
            result.id[i] \in URLSafeCharacters /\ result.id[i] # "="

\* an identifier has been returned that ends with the padding character
C12_Witness ==
    /\ result.op = "UniqueID"
    /\ Len(result.id) = 44
    /\ result.id[44] = "="
    /\ \A i \in 1..43 : result.id[i] \in URLSafeCharacters

(***************************************************************************)
(* Validate                                                                *)
(***************************************************************************)
\* the checks of Validate on a non-nil alert, in their order: destination,
\* header or text, icon, link, severity, correlation ID, auto-resolve, field
\* count, webhooks, escalation, ignore list
Checks(a) ==
    <<ValidateSlackChannelIDAndRouteKey(a), ValidateHeaderAndText(a), ValidateIcon(a),
      ValidateLink(a), ValidateSeverity(a), ValidateCorrelationID(a),
      ValidateAutoResolve(a), ValidateFields(a), ValidateWebhooks(a),
      ValidateEscalation(a), ValidateIgnoreIfTextContains(a)>>

\* the positions of the failing ones among the outcomes of the checks
Failing(checks) == {k \in 1..Len(checks) : checks[k] # NoError}

\* C13: Validate returns the error of the earliest failing check in the order
\* nil alert, destination, header or text, icon, link, severity, correlation ID,
\* auto-resolve, field count, webhooks, escalation, ignore list, and no error when
\* none fails; an alert without header and text and with an invalid severity
\* reports "header and text cannot both be empty" unless its destination fails
C13_FirstFailure ==
    result.op = "Validate" =>
        IF alert.nil THEN result.err = Err("alert is nil", <<>>)
        ELSE LET checks == Checks(alert)
                 failing == Failing(checks)
             IN
             /\ failing = {} => result.err = NoError
             /\ failing # {} => result.err = checks[Min(failing)]
             /\ (/\ alert.Header = <<>> /\ alert.Text = <<>>
                 /\ ~SeverityIsValid(alert.Severity)
                 /\ ValidateSlackChannelIDAndRouteKey(alert) = NoError)
                   => result.err = Err("header and text cannot both be empty", <<>>)

\* an alert that breaks every rule but the first has been validated
C13_Witness ==
    /\ result.op = "Validate"
    /\ ~alert.nil
    /\ Failing(Checks(alert)) = 2..11
    /\ result.err = Err("header and text cannot both be empty", <<>>)

\* Validate and the sub-checks that are called on their own
ValidateOps ==
    {"Validate", "ValidateSlackChannelIDAndRouteKey", "ValidateWebhooks", "ValidateEscalation"}
        \cup PartNames

\* C14: Validate and each of its sub-checks, whether they succeed or fail, leave
\* every field of the alert and of its nested objects as it was when they were
\* called
C14_ValidateReadOnly ==
    result.op \in ValidateOps => alert = before

\* a failed Validate of an alert with a webhook, and so has a sub-check of an
\* alert with escalations
C14_Witness ==
    /\ ~alert.nil
    /\ \/ /\ result.op = "Validate"
          /\ result.err # NoError
          /\ alert.Webhooks # <<>>
       \/ /\ result.op = "ValidateEscalation"
          /\ Len(alert.Escalation) = 2
    /\ alert = before

\* the nil entries that Validate looks at, each with its place in the order in
\* which Validate goes through the lists and with the error that names it
NilEntries(a) ==
    LET hooks == a.Webhooks
        present == {w \in 1..Len(hooks) : ~hooks[w].nil}
        boxes(w) == {j \in 1..Len(hooks[w].CheckboxInput) : ~hooks[w].CheckboxInput[j].nil}
    IN  {[place |-> <<1, w, 0, 0, 0>>, err |-> Err("webhook[%d] is nil", <<w - 1>>)] :
            w \in {w \in 1..Len(hooks) : hooks[w].nil}}
        \cup UNION {{[place |-> <<1, w, 1, i, 0>>,
                      err |-> Err("webhook[%d].plainTextInput[%d] is nil", <<w - 1, i - 1>>)] :
                        i \in {i \in 1..Len(hooks[w].PlainTextInput) :
                                    hooks[w].PlainTextInput[i].nil}} : w \in present}
        \cup UNION {{[place |-> <<1, w, 2, j, 0>>,
                      err |-> Err("webhook[%d].checkboxInput[%d] is nil", <<w - 1, j - 1>>)] :
                        j \in {j \in 1..Len(hooks[w].CheckboxInput) :
                                    hooks[w].CheckboxInput[j].nil}} : w \in present}
        \cup UNION {UNION {{[place |-> <<1, w, 2, j, o>>,
                             err |-> Err("webhook[%d].checkboxInput[%d].options[%d] is nil",
                                         <<w - 1, j - 1, o - 1>>)] :
                                o \in {o \in 1..Len(hooks[w].CheckboxInput[j].Options) :
                                            hooks[w].CheckboxInput[j].Options[o].nil}} :
                            j \in boxes(w)} : w \in present}
        \cup {[place |-> <<2, k, 0, 0, 0>>, err |-> Err("escalation[%d] is nil", <<k - 1>>)] :
                k \in {k \in 1..Len(a.Escalation) : a.Escalation[k].nil}}

\* p comes before q in the order of the places
PlaceBefore(p, q) ==
    \E n \in 1..5 : p[n] < q[n] /\ \A m \in 1..(n - 1) : p[m] = q[m]

\* the first nil entry of an alert that has one
FirstNilEntry(a) ==
    CHOOSE e \in NilEntries(a) :
        \A f \in NilEntries(a) : f = e \/ PlaceBefore(e.place, f.place)

NilMessages ==
    {"webhook[%d] is nil", "webhook[%d].plainTextInput[%d] is nil",
     "webhook[%d].checkboxInput[%d] is nil",
     "webhook[%d].checkboxInput[%d].options[%d] is nil", "escalation[%d] is nil"}

\* the sequence without its nil entries
Present(xs) == SelectSeq(xs, LAMBDA x : ~x.nil)

\* the alert without the nil entries that Validate looks at
WithoutNilEntries(a) ==
    LET box(input) == [input EXCEPT !.Options = Present(@)]
        hook(h) == [h EXCEPT !.PlainTextInput = Present(@),
                             !.CheckboxInput = [j \in 1..Len(Present(@)) |-> box(Present(@)[j])]]
    IN  [a EXCEPT !.Webhooks = [w \in 1..Len(Present(@)) |-> hook(Present(@)[w])],
                  !.Escalation = Present(@)]

\* C15: Validate of no alert returns "alert is nil"; an alert with a nil entry
\* in Webhooks, PlainTextInput, CheckboxInput, Options or Escalation fails; an
\* "... is nil" error names the first nil entry; and it is the error returned
\* when the alert is valid but for its nil entries
C15_NilRejection ==
    result.op = "Validate" =>
        IF alert.nil THEN result.err = Err("alert is nil", <<>>)
        ELSE LET entries == NilEntries(alert)
             IN  /\ entries # {} => result.err # NoError
                 /\ result.err.msg \in NilMessages =>
                       entries # {} /\ result.err = FirstNilEntry(alert).err
                 /\ (entries # {} /\ Validate(WithoutNilEntries(alert)) = NoError)
                       => result.err = FirstNilEntry(alert).err

\* a nil option behind a valid checkbox input has been reported with its path,
\* and so has a nil escalation behind valid webhooks
C15_Witness ==
    /\ result.op = "Validate"
    /\ ~alert.nil
    /\ \/ result.err = Err("webhook[%d].checkboxInput[%d].options[%d] is nil", <<0, 1, 1>>)
       \/ /\ result.err = Err("escalation[%d] is nil", <<1>>)
          /\ alert.Webhooks # <<>>

\* the positions of the nil entries of a list
NilPositions(xs) == {i \in 1..Len(xs) : xs[i].nil}

\* ys has the length of xs and nil entries at the same positions
SameNilPositions(xs, ys) == Len(ys) = Len(xs) /\ NilPositions(ys) = NilPositions(xs)

\* the webhook after Clean: trimmed, its nil inputs where they were, and every
\* other input trimmed
NormalizedWebhook(old, new) ==
    /\ new.ID = TrimSpace(old.ID)
    /\ new.URL = TrimSpace(old.URL)
    /\ new.ButtonText = TrimSpace(old.ButtonText)
    /\ SameNilPositions(old.PlainTextInput, new.PlainTextInput)
    /\ \A i \in 1..Len(old.PlainTextInput) \ NilPositions(old.PlainTextInput) :
          /\ new.PlainTextInput[i].ID = TrimSpace(old.PlainTextInput[i].ID)
          /\ new.PlainTextInput[i].Description = TrimSpace(old.PlainTextInput[i].Description)
    /\ SameNilPositions(old.CheckboxInput, new.CheckboxInput)
    /\ \A j \in 1..Len(old.CheckboxInput) \ NilPositions(old.CheckboxInput) :
          /\ new.CheckboxInput[j].ID = TrimSpace(old.CheckboxInput[j].ID)
          /\ new.CheckboxInput[j].Label = TrimSpace(old.CheckboxInput[j].Label)

\* C16: Clean of an alert with nil entries in Fields, Webhooks, PlainTextInput,
\* CheckboxInput or Escalation returns; every list keeps its length and its nil
\* entries (those of Escalation sorted to the front, the others where they
\* were), and every other entry is normalized
C16_CleanSkipsNil ==
    Cleaned =>
        /\ result.err = NoError
        /\ SameNilPositions(before.Fields, alert.Fields)
        /\ \A i \in 1..Len(before.Fields) \ NilPositions(before.Fields) :
              /\ alert.Fields[i].Title = TrimSpace(before.Fields[i].Title)
              /\ alert.Fields[i].Value = TrimSpace(before.Fields[i].Value)
        /\ SameNilPositions(before.Webhooks, alert.Webhooks)
        /\ \A w \in 1..Len(before.Webhooks) \ NilPositions(before.Webhooks) :
              NormalizedWebhook(before.Webhooks[w], alert.Webhooks[w])
        /\ Len(alert.Escalation) = Len(before.Escalation)
        /\ NilPositions(alert.Escalation) = 1..Cardinality(NilPositions(before.Escalation))
        /\ \A k \in 1..Len(before.Escalation) \ NilPositions(before.Escalation) :
              \E n \in 1..Len(alert.Escalation) :
                 /\ ~alert.Escalation[n].nil
                 /\ alert.Escalation[n].addr = before.Escalation[k].addr
                 /\ alert.Escalation[n].Severity = ToLower(TrimSpace(before.Escalation[k].Severity))
                 /\ alert.Escalation[n].MoveToChannel
                        = ToUpper(TrimSpace(before.Escalation[k].MoveToChannel))

\* Clean has returned on an alert with a nil field, a nil webhook, a nil input
\* behind a plain-text input that it trimmed, and a nil escalation on each
\* side of an escalation that it normalized
C16_Witness ==
    /\ Cleaned
    /\ alert # before
    /\ NilPositions(before.Fields) # {}
    /\ NilPositions(before.Webhooks) # {}
    /\ NilPositions(before.Escalation) = {1, 3}
    /\ \E w \in 1..Len(before.Webhooks) \ NilPositions(before.Webhooks) :
          /\ NilPositions(before.Webhooks[w].PlainTextInput) = {2}
          /\ alert.Webhooks[w].PlainTextInput[1] # before.Webhooks[w].PlainTextInput[1]

\* the alert with its timestamp set aside
Undated(a) == [a EXCEPT !.Timestamp = ZeroTime]

\* the cleaned alert with only a header and a channel
MinimalCleaned ==
    [BaseAlert EXCEPT !.Timestamp = ZeroTime, !.Header = <<"f", "o", "o">>,
                      !.SlackChannelID = <<"C", "1", "2", "3", "4", "5", "6", "7", "8">>, !.Severity = <<"e", "r", "r", "o", "r">>]

\* the cleaned alert with every field empty
EmptyCleaned == [BaseAlert EXCEPT !.Timestamp = ZeroTime, !.Severity = <<"e", "r", "r", "o", "r">>]

\* C17: the alert with only Header "foo" and SlackChannelID "c12345678" has the
\* channel "C12345678" after Clean and then passes Validate; the alert with
\* every field empty fails Validate with "header and text cannot both be
\* empty" before Clean and after it
C17_EndToEnd ==
    LET minimal == [Undated(BaseAlert) EXCEPT !.Header = <<"f", "o", "o">>,
                                              !.SlackChannelID = <<"c", "1", "2", "3", "4", "5", "6", "7", "8">>]
        headerOrText == Err("header and text cannot both be empty", <<>>)
    IN  /\ (Cleaned /\ Undated(before) = minimal) => Undated(alert) = MinimalCleaned
        /\ (Cleaned /\ Undated(before) = Undated(BaseAlert)) => Undated(alert) = EmptyCleaned
        /\ result.op = "Validate" =>
              /\ Undated(alert) = MinimalCleaned => result.err = NoError
              /\ Undated(alert) \in {Undated(BaseAlert), EmptyCleaned}
                    => result.err = headerOrText

\* Validate has passed the cleaned alert that had only a header and a
\* lower-case channel
C17_Witness ==
    /\ result.op = "Validate"
    /\ result.err = NoError
    /\ cleans = 1
    /\ Undated(alert) = MinimalCleaned

\* Validate has failed the cleaned alert that had nothing
C17_WitnessEmpty ==
    /\ result.op = "Validate"
    /\ result.err = Err("header and text cannot both be empty", <<>>)
    /\ cleans = 1
    /\ Undated(alert) = EmptyCleaned

\* C18: after Clean, Severity is the trimmed, lower-cased input, but "error"
\* when that is empty or "critical"; it is never empty and never "critical";
\* any other unknown value is kept, and Validate rejects it
C18_SeverityDefault ==
    LET folded == ToLower(TrimSpace(before.Severity))
        unknown == Err("severity '%s' is not valid, expected one of [%s]", <<>>)
    IN  /\ Cleaned =>
              /\ alert.Severity = IF folded \in {<<>>, <<"c", "r", "i", "t", "i", "c", "a", "l">>} THEN <<"e", "r", "r", "o", "r">> ELSE folded
              /\ alert.Severity \notin {<<>>, <<"c", "r", "i", "t", "i", "c", "a", "l">>}
              /\ before.Severity \in {<<>>, <<" ", "C", "R", "I", "T", "I", "C", "A", "L", " ">>, <<" ", " ">>, <<"c", "r", "i", "t", "i", "c", "a", "l">>}
                    => alert.Severity = <<"e", "r", "r", "o", "r">>
              /\ before.Severity = <<" ", "P", "a", "n", "i", "c", " ">> => alert.Severity = <<"p", "a", "n", "i", "c">>
              /\ before.Severity = <<" ", "c", "r", "i", "t", "i", "c", "a", "l", " ", "e", "r", "r", "o", "r", " ">> => alert.Severity = <<"c", "r", "i", "t", "i", "c", "a", "l", " ", "e", "r", "r", "o", "r">>
        /\ (result.op = "Validate" /\ cleans > 0 /\ alert.Header # <<>>
                /\ alert.Severity \in {<<"b", "o", "g", "u", "s">>, <<"c", "r", "i", "t", "i", "c", "a", "l", " ", "e", "r", "r", "o", "r">>})
              => result.err = unknown

\* Clean has turned " CRITICAL " into "error"
C18_Witness ==
    /\ Cleaned
    /\ before.Severity = <<" ", "C", "R", "I", "T", "I", "C", "A", "L", " ">>
    /\ alert.Severity = <<"e", "r", "r", "o", "r">>

\* Validate has rejected an unknown severity that Clean kept
C18_WitnessUnknown ==
    /\ result.op = "Validate"
    /\ cleans > 0
    /\ alert.Severity = <<"b", "o", "g", "u", "s">>
    /\ result.err.msg = "severity '%s' is not valid, expected one of [%s]"

\* C19: Clean replaces Timestamp by the current time exactly when the current
\* time minus Timestamp is more than 7 days; the zero timestamp is always
\* replaced; a timestamp 7 days old or younger, or in the future, is left as
\* it is, zone included
C19_TimestampStaleness ==
    [][cleans' = cleans + 1 =>
          LET week == 7 * 24 * 3600
              age == now - alert.Timestamp.sec
          IN  /\ age > week => alert'.Timestamp = [sec |-> now, loc |-> "Local"]
              /\ age <= week => alert'.Timestamp = alert.Timestamp
              /\ alert.Timestamp = ZeroTime => alert'.Timestamp.sec = now]_vars

\* Clean has left a timestamp of exactly 7 days (no time has passed since the start)
C19_Witness ==
    /\ Cleaned
    /\ ticks = 0
    /\ now - before.Timestamp.sec = 7 * 24 * 3600
    /\ alert.Timestamp = before.Timestamp

\* Clean has replaced a timestamp of 7 days and a second
C19_WitnessStale ==
    /\ Cleaned
    /\ ticks = 0
    /\ now - before.Timestamp.sec = 7 * 24 * 3600 + 1
    /\ alert.Timestamp.sec = now

\* Clean has left a timestamp in the future
C19_WitnessFuture ==
    /\ Cleaned
    /\ ticks = 0
    /\ before.Timestamp.sec > now
    /\ alert.Timestamp = before.Timestamp

\* C20: ValidateAutoResolve fails exactly when IssueFollowUpEnabled is true and
\* AutoResolveSeconds is below 30 or above 63113851: both limits pass, and
\* without follow-up every value passes, negative ones included; Validate of an
\* alert with nothing else wrong fails in the same cases
C20_AutoResolveRange ==
    LET outside == alert.AutoResolveSeconds < 30 \/ alert.AutoResolveSeconds > 63113851
    IN  result.op \in {"ValidateAutoResolve", "Validate"} =>
           /\ (result.err # NoError) <=> (alert.IssueFollowUpEnabled /\ outside)
           /\ result.err # NoError =>
                 result.err.msg = IF alert.AutoResolveSeconds < 30
                                  THEN "autoResolveSeconds %d is too low, expected value >=%d"
                                  ELSE "autoResolveSeconds %d is too high, expected value <=%d"

\* the check has passed the upper limit with follow-up
C20_Witness ==
    /\ result.op = "ValidateAutoResolve"
    /\ alert.IssueFollowUpEnabled
    /\ alert.AutoResolveSeconds = 63113851
    /\ result.err = NoError

\* the check has passed a negative delay without follow-up
C20_WitnessDisabled ==
    /\ result.op = "ValidateAutoResolve"
    /\ ~alert.IssueFollowUpEnabled
    /\ alert.AutoResolveSeconds < 0
    /\ result.err = NoError

\* the check has failed one above the upper limit
C20_WitnessTooHigh ==
    /\ result.op = "ValidateAutoResolve"
    /\ alert.AutoResolveSeconds = 63113852
    /\ result.err # NoError

\* the positions of the escalations whose severity is none of panic, error, warning
NotEscalating(a) ==
    {k \in 1..Len(a.Escalation) :
        a.Escalation[k].Severity \notin {<<"p", "a", "n", "i", "c">>, <<"e", "r", "r", "o", "r">>, <<"w", "a", "r", "n", "i", "n", "g">>}}

\* C21: ValidateEscalation, and Validate with it, fails when an escalation has a
\* severity other than panic, error and warning (resolved, info and the empty
\* string included, also after Clean); when the list is no longer than
\* MaxEscalationCount and the delays are in order the error is
\* "escalation[i].severity ... is not valid" for the first such escalation;
\* every escalation of an alert that passes has one of the three severities
C21_EscalationSeverity ==
    LET others == NotEscalating(alert)
        first == CHOOSE k \in others : \A j \in others : k <= j
        checked == /\ Len(alert.Escalation) <= MaxEscalationCount
                   /\ (alert.Escalation = <<>> \/ alert.Escalation[1].DelaySeconds >= 30)
    IN  result.op \in {"Validate", "ValidateEscalation"} =>
           /\ others # {} => result.err # NoError
           /\ result.err = NoError <=> (others = {} /\ checked)
           /\ (others # {} /\ checked) =>
                 result.err = Err("escalation[%d].severity '%s' is not valid, expected one of [panic, error, warning]",
                                  <<first - 1>>)

\* after Clean, an escalation with the empty severity behind an escalation with
\* a valid one has been rejected, and so has one with severity resolved or info
C21_Witness ==
    /\ result.op = "Validate"
    /\ cleans > 0
    /\ Len(alert.Escalation) >= 2
    /\ alert.Escalation[1].Severity = <<"p", "a", "n", "i", "c">>
    /\ alert.Escalation[2].Severity \in {<<>>, <<"r", "e", "s", "o", "l", "v", "e", "d">>, <<"i", "n", "f", "o">>}
    /\ result.err = Err("escalation[%d].severity '%s' is not valid, expected one of [panic, error, warning]", <<1>>)

\* C26: two different ordered sequences of strings never absorb the same
\* bytes and never yield the same identifier, whatever the strings hold
C26_BoundarySensitive ==
    (BothIdentified /\ UniqueIDInput(alert) # UniqueIDInput(other)) =>
        /\ Absorbed(UniqueIDInput(alert)) # Absorbed(UniqueIDInput(other))
        /\ result.id # otherResult.id

\* no string of the sequence holds the delimiter byte
NulFree(input) == \A k \in 1..Len(input) : "x00" \notin Range(input[k])

\* the same for sequences of strings without the delimiter byte
C26_BoundarySensitiveNulFree ==
    (BothIdentified /\ UniqueIDInput(alert) # UniqueIDInput(other)
        /\ NulFree(UniqueIDInput(alert)) /\ NulFree(UniqueIDInput(other))) =>
        /\ Absorbed(UniqueIDInput(alert)) # Absorbed(UniqueIDInput(other))
        /\ result.id # otherResult.id

\* two alerts that differ in Header and in Text, both cleaned and valid, have
\* absorbed the same bytes and have the same identifier
C26_Witness ==
    /\ BothIdentified
    /\ alert.Header # other.Header
    /\ alert.Text # other.Text
    /\ alert = Clean(alert, now)
    /\ Validate(alert) = NoError
    /\ Validate(Clean(other, now)) = NoError
    /\ result.id = otherResult.id

\* the identifiers of ("ab", "c") and ("a", "bc") differ
C26_WitnessDistinct ==
    /\ BothIdentified
    /\ <<alert.Header, alert.Text>> = <<<<"a", "b">>, <<"c">>>>
    /\ <<other.Header, other.Text>> = <<<<"a">>, <<"b", "c">>>>
    /\ result.id # otherResult.id

(***************************************************************************)
(* Enumerations                                                            *)
(***************************************************************************)
\* C22: SeverityPriority is 3 for panic, 2 for error, 1 for warning, 0 for
\* resolved and info, and -1 for any other string; SeverityIsValid is true for
\* exactly these five, that is when the priority is at least 0; and
\* ValidSeverities lists exactly these five
C22_SeverityTaxonomy ==
    LET s == args.s
        five == {<<"p", "a", "n", "i", "c">>, <<"e", "r", "r", "o", "r">>, <<"w", "a", "r", "n", "i", "n", "g">>, <<"r", "e", "s", "o", "l", "v", "e", "d">>, <<"i", "n", "f", "o">>}
    IN  /\ returned.op = "SeverityPriority" =>
              /\ s = <<"p", "a", "n", "i", "c">> => returned.value = 3
              /\ s = <<"e", "r", "r", "o", "r">> => returned.value = 2
              /\ s = <<"w", "a", "r", "n", "i", "n", "g">> => returned.value = 1
              /\ s \in {<<"r", "e", "s", "o", "l", "v", "e", "d">>, <<"i", "n", "f", "o">>} => returned.value = 0
              /\ s \notin five => returned.value = -1
        /\ returned.op = "SeverityIsValid" =>
              /\ returned.value = (s \in five)
              /\ returned.value = (SeverityPriority(s) >= 0)
        /\ returned.op = "ValidSeverities" =>
              /\ Len(returned.value) = 5
              /\ {returned.value[i] : i \in 1..5} = five

\* SeverityPriority has returned 0 for info
C22_Witness ==
    /\ returned.op = "SeverityPriority"
    /\ args.s = <<"i", "n", "f", "o">>
    /\ returned.value = 0

\* SeverityIsValid has returned false for a string that is no severity
C22_WitnessUnknown ==
    /\ returned.op = "SeverityIsValid"
    /\ args.s = <<"I", "n", "f", "o">>
    /\ returned.value = FALSE

ButtonStyles == {<<"p", "r", "i", "m", "a", "r", "y">>, <<"d", "a", "n", "g", "e", "r">>}

AccessLevels == {<<"g", "l", "o", "b", "a", "l", "_", "a", "d", "m", "i", "n", "s">>, <<"c", "h", "a", "n", "n", "e", "l", "_", "a", "d", "m", "i", "n", "s">>, <<"c", "h", "a", "n", "n", "e", "l", "_", "m", "e", "m", "b", "e", "r", "s">>}

DisplayModes == {<<"a", "l", "w", "a", "y", "s">>, <<"o", "p", "e", "n", "_", "i", "s", "s", "u", "e">>, <<"r", "e", "s", "o", "l", "v", "e", "d", "_", "i", "s", "s", "u", "e">>}

\* the elements of a list, when each occurs once
ListedOnce(list, members) ==
    Len(list) = Cardinality(members) /\ {list[i] : i \in 1..Len(list)} = members

\* C23: for button style, access level and display mode, the membership test
\* is true exactly for the listed members (false for the empty string), the
\* listing returns exactly the members, and validation of a webhook passes
\* exactly when each of the three values is empty or a member
C23_WebhookEnumerations ==
    /\ returned.op = "WebhookButtonStyleIsValid" => returned.value = (args.s \in ButtonStyles)
    /\ returned.op = "WebhookAccessLevelIsValid" => returned.value = (args.s \in AccessLevels)
    /\ returned.op = "WebhookDisplayModeIsValid" => returned.value = (args.s \in DisplayModes)
    /\ returned.op = "ValidWebhookButtonStyles" => ListedOnce(returned.value, ButtonStyles)
    /\ returned.op = "ValidWebhookAccessLevels" => ListedOnce(returned.value, AccessLevels)
    /\ returned.op = "ValidWebhookDisplayModes" => ListedOnce(returned.value, DisplayModes)
    /\ (result.op \in {"Validate", "ValidateWebhooks"} /\ ~alert.nil) =>
          LET hook == alert.Webhooks[1]
              style == hook.ButtonStyle \in ButtonStyles \cup {<<>>}
              level == hook.AccessLevel \in AccessLevels \cup {<<>>}
              mode == hook.DisplayMode \in DisplayModes \cup {<<>>}
          IN  result.err =
                 IF ~style
                 THEN Err("webhook[%d].buttonStyle '%s' is not valid, expected empty or one of [%s]", <<0>>)
                 ELSE IF ~level
                 THEN Err("webhook[%d].accessLevel '%s' is not valid, expected empty or one of [%s]", <<0>>)
                 ELSE IF ~mode
                 THEN Err("webhook[%d].displayMode '%s' is not valid, expected empty or one of [%s]", <<0>>)
                 ELSE NoError

\* the access level test has returned false for the empty string
C23_Witness ==
    /\ returned.op = "WebhookAccessLevelIsValid"
    /\ args.s = <<>>
    /\ returned.value = FALSE

\* validation has passed a webhook with an empty style and a level and a mode
\* of the enumerations
C23_WitnessAccepted ==
    /\ result.op = "ValidateWebhooks"
    /\ ~alert.nil
    /\ alert.Webhooks[1].ButtonStyle = <<>>
    /\ alert.Webhooks[1].AccessLevel = <<"c", "h", "a", "n", "n", "e", "l", "_", "m", "e", "m", "b", "e", "r", "s">>
    /\ alert.Webhooks[1].DisplayMode = <<"r", "e", "s", "o", "l", "v", "e", "d", "_", "i", "s", "s", "u", "e">>
    /\ result.err = NoError

\* validation has rejected a webhook for a display mode that is no member
C23_WitnessRejected ==
    /\ result.op = "ValidateWebhooks"
    /\ ~alert.nil
    /\ alert.Webhooks[1].DisplayMode = <<"o", "p", "e", "n">>
    /\ result.err.msg = "webhook[%d].displayMode '%s' is not valid, expected empty or one of [%s]"

(***************************************************************************)
(* Plain-text inputs                                                       *)
(***************************************************************************)
\* the only plain-text input of the only webhook of the alert
TheInput == alert.Webhooks[1].PlainTextInput[1]

\* 0 <= MinLength <= MaxLength <= 3000
LengthsInOrder(input) ==
    0 <= input.MinLength /\ input.MinLength <= input.MaxLength /\ input.MaxLength <= 3000

\* C24: a plain-text input with a valid, unique ID and description passes
\* validation exactly when 0 <= MinLength <= MaxLength <= 3000 and the number
\* of characters of InitialValue is within [MinLength, MaxLength]
C24_InitialValueInBounds ==
    result.op \in {"Validate", "ValidateWebhooks"} =>
        (result.err = NoError <=>
            /\ LengthsInOrder(TheInput)
            /\ RuneCountInString(TheInput.InitialValue) >= TheInput.MinLength
            /\ RuneCountInString(TheInput.InitialValue) <= TheInput.MaxLength)

\* the same with the number of bytes of InitialValue, which is what is compared
C24_InitialValueBytesInBounds ==
    result.op \in {"Validate", "ValidateWebhooks"} =>
        (result.err = NoError <=>
            /\ LengthsInOrder(TheInput)
            /\ ByteLen(TheInput.InitialValue) >= TheInput.MinLength
            /\ ByteLen(TheInput.InitialValue) <= TheInput.MaxLength)

\* validation has passed an initial value of one character, of two bytes, for
\* an input that asks for two characters at least
C24_Witness ==
    /\ result.op = "Validate"
    /\ result.err = NoError
    /\ TheInput.MinLength = 2
    /\ RuneCountInString(TheInput.InitialValue) = 1

\* validation has rejected an initial value of two characters, of four bytes,
\* for an input that allows two characters
C24_WitnessRejected ==
    /\ result.op = "Validate"
    /\ result.err = Err("webhook[%d].plainTextInput[%d].initialValue cannot be longer than maxLength", <<0, 0>>)
    /\ TheInput.MinLength = 2
    /\ TheInput.MaxLength = 2
    /\ RuneCountInString(TheInput.InitialValue) = 2

(***************************************************************************)
(* WebhookCallback                                                         *)
(***************************************************************************)
\* the key of the call is present in the map of the callback with that name
KeyPresent(field) ==
    /\ ~callback.nil
    /\ ~callback[field].nil
    /\ args.key \in DOMAIN callback[field].m

\* the value stored under the key of the call
Stored(field) == callback[field].m[args.key]

\* C25: on a nil callback, on a nil map and for a missing key, GetPayloadValue,
\* GetPayloadString and GetInputValue return an empty value,
\* GetCheckboxInputSelectedValues returns an empty list, and GetPayloadInt and
\* GetPayloadBool return the default; for a key with a value of the requested
\* type each getter returns the stored value; GetPayloadInt, GetPayloadBool and
\* GetPayloadString return the default, or the empty string, for a value of
\* another type
C25_CallbackGetters ==
    LET value == returned.value
        typed(t) == KeyPresent("Payload") /\ Stored("Payload").type = t
    IN  /\ returned.op = "GetPayloadValue" =>
              IF KeyPresent("Payload")
              THEN value.type = Stored("Payload").type /\ value.v = Stored("Payload").v
              ELSE value.type \in {"nil", "string"} /\ value.v = <<>>
        /\ returned.op = "GetPayloadString" =>
              value = IF typed("string") THEN Stored("Payload").v ELSE <<>>
        /\ returned.op = "GetPayloadInt" =>
              value = IF typed("int") THEN Stored("Payload").v ELSE args.defaultInt
        /\ returned.op = "GetPayloadBool" =>
              value = IF typed("bool") THEN Stored("Payload").v ELSE args.defaultBool
        /\ returned.op = "GetInputValue" =>
              value = IF KeyPresent("Input") THEN Stored("Input") ELSE <<>>
        /\ returned.op = "GetCheckboxInputSelectedValues" =>
              value = IF KeyPresent("CheckboxInput") THEN Stored("CheckboxInput") ELSE <<>>

\* GetPayloadInt has returned its default for a key whose value is a string
C25_Witness ==
    /\ returned.op = "GetPayloadInt"
    /\ KeyPresent("Payload")
    /\ Stored("Payload").type = "string"
    /\ args.defaultInt = 42
    /\ returned.value = 42

\* GetCheckboxInputSelectedValues has returned an empty list on no callback
C25_WitnessNil ==
    /\ returned.op = "GetCheckboxInputSelectedValues"
    /\ callback.nil
    /\ returned.value = <<>>

\* GetPayloadBool has returned the stored false against the default true
C25_WitnessStored ==
    /\ returned.op = "GetPayloadBool"
    /\ KeyPresent("Payload")
    /\ args.defaultBool
    /\ returned.value = FALSE

(***************************************************************************)
(* Nested placeholders, nil fields, stable identities, nil escalations     *)
(***************************************************************************)
\* C27: after Clean, FallbackText holds no occurrence of ":status:"
C27_NoStatusToken ==
    Cleaned => ~Contains(alert.FallbackText, <<":", "s", "t", "a", "t", "u", "s", ":">>)

\* the first Clean of ":sta:status:tus:" has left ":status:"
C27_Witness ==
    /\ Cleaned
    /\ cleans = 1
    /\ before.FallbackText = <<":", "s", "t", "a", ":", "s", "t", "a", "t", "u", "s", ":", "t", "u", "s", ":">>
    /\ alert.FallbackText = <<":", "s", "t", "a", "t", "u", "s", ":">>

\* Clean has stripped a placeholder that is not nested
C27_WitnessStripped ==
    /\ Cleaned
    /\ cleans = 1
    /\ Contains(before.FallbackText, <<":", "s", "t", "a", "t", "u", "s", ":">>)
    /\ ~Contains(alert.FallbackText, <<":", "s", "t", "a", "t", "u", "s", ":">>)

\* C28: Clean leaves a nil entry of Fields at its slot, and Validate rejects
\* an alert whose Fields hold a nil entry
C28_NilFieldRejected ==
    /\ Cleaned => SameNilPositions(before.Fields, alert.Fields)
    /\ (result.op \in {"Validate", "ValidateFields"} /\ NilPositions(alert.Fields) # {})
          => result.err # NoError

\* Validate has passed a cleaned alert whose first field is nil
C28_Witness ==
    /\ result.op = "Validate"
    /\ cleans = 1
    /\ Len(alert.Fields) = 2
    /\ alert.Fields[1].nil
    /\ alert.Fields[2] = NewField(<<"t">>, <<"v">>)
    /\ result.err = NoError

\* the part of the claim about Clean: the nil entries stay, the others are trimmed
C28_CleanSkipsNilField ==
    Cleaned =>
        /\ SameNilPositions(before.Fields, alert.Fields)
        /\ \A i \in 1..Len(alert.Fields) \ NilPositions(alert.Fields) :
              alert.Fields[i] = NewField(<<"t">>, <<"v">>)

\* C29: when no Clean call found the timestamp stale, the six hashed values of
\* an alert cleaned once or more are those of its copy cleaned once, and so
\* are the identities
C29_StableOnceCleaned ==
    (cleans >= 1 /\ staleCalls = 0) =>
        /\ HashedValues(alert) = HashedValues(other)
        /\ BothIdentified /\ before = alert => result.id = otherResult.id

\* the identity after a second Clean, the clock having advanced, is that of the
\* copy cleaned once
C29_Witness ==
    /\ BothIdentified
    /\ before = alert
    /\ cleans = 2
    /\ staleCalls = 0
    /\ ticks > 0
    /\ result.id = otherResult.id

\* the identity computed before Clean differs from that of the cleaned copy
C29_WitnessBefore ==
    /\ BothIdentified
    /\ cleans = 0
    /\ result.id # otherResult.id


\* the checks Validate makes before ValidateEscalation
PrecedingChecks(a) ==
    FirstError(<<ValidateSlackChannelIDAndRouteKey(a),
                 ValidateHeaderAndText(a),
                 ValidateIcon(a),
                 ValidateLink(a),
                 ValidateSeverity(a),
                 ValidateCorrelationID(a),
                 ValidateAutoResolve(a),
                 ValidateFields(a),
                 ValidateWebhooks(a)>>)

\* the alert has a nil escalation among MaxEscalationCount at most
NilEscalation(a) ==
    /\ ~a.nil
    /\ Len(a.Escalation) <= MaxEscalationCount
    /\ NilPositions(a.Escalation) # {}

\* C30: Clean keeps the nil escalations and moves them to the front of the
\* list, and Validate of a cleaned alert that has a nil escalation among three
\* at most and passes the checks before the escalations fails with
\* "escalation[0] is nil"
C30_NilEscalationFirst ==
    /\ (Cleaned /\ NilEscalation(before)) =>
          /\ Len(alert.Escalation) = Len(before.Escalation)
          /\ NilPositions(alert.Escalation) =
                1..Cardinality(NilPositions(before.Escalation))
    /\ (result.op = "Validate" /\ cleans >= 1 /\ NilEscalation(alert)
            /\ PrecedingChecks(alert) = NoError) =>
          result.err = Err("escalation[%d] is nil", <<0>>)

\* Validate has rejected a cleaned alert for the nil escalation at index 0, ahead
\* of an escalation whose delay is too low and of one more
C30_Witness ==
    /\ result.op = "Validate"
    /\ cleans >= 1
    /\ NilEscalation(alert)
    /\ PrecedingChecks(alert) = NoError
    /\ Len(alert.Escalation) = MaxEscalationCount
    /\ NilPositions(alert.Escalation) = {1}
    /\ alert.Escalation[2].DelaySeconds < MinEscalationDelaySeconds
    /\ result.err = Err("escalation[%d] is nil", <<0>>)

\* Clean has moved the one nil escalation from the end of the list to index 0
C30_WitnessMoved ==
    /\ Cleaned
    /\ Len(before.Escalation) = MaxEscalationCount
    /\ NilPositions(before.Escalation) = {MaxEscalationCount}
    /\ NilPositions(alert.Escalation) = {1}

====
